---------------------------- MODULE Spec2Model ----------------------------
(***************************************************************************)
(* RBDuplo: the extraction pipeline that turns a composite JPEG file (one  *)
(* or more JPEG frames followed by embedded JSON metadata) into a          *)
(* violation record.                                                       *)
(*                                                                         *)
(* Two parser variants live in the repository and both are modelled:       *)
(*   convertor : src/convertor/app/core/jpeg_parser.py  (JpegParser)       *)
(*   legacy    : src/app/core/jpeg_parser.py            (JpegParser)       *)
(*                                                                         *)
(* The pipeline is a chain of pure functions, so the module holds three    *)
(* specifications, one per layer, each drawing its inputs from bounded     *)
(* sets:                                                                   *)
(*   SpecFrames : byte buffers   -> frames and metadata region             *)
(*   SpecSplit  : decoded text   -> sequence of JSON values                *)
(*   SpecRecord : frames+objects -> violation record / parse result        *)
(*                                                                         *)
(* Python positions are 0-based; TLA+ sequences are 1-based.  Positions in *)
(* the model are the Python ones, so byte p of d is d[p + 1].              *)
(***************************************************************************)
EXTENDS Integers, Sequences, FiniteSets, TLC

VARIABLES
    pc,            \* position of the running call
    \* ---- byte layer (SpecFrames)
    data,          \* the raw input buffer (sequence of byte values)
    pos,           \* _extract_frames: the scan cursor
    frames,        \* _extract_frames: base64 texts emitted so far
    ranges,        \* history of the loop's locals <<start_pos, end_pos>> per frame
    iters,         \* number of loop iterations executed so far
    json_data,     \* _extract_json: the metadata region
    legacy_region, \* legacy parse: the region, or Raised when rfind gave -1
    \* ---- text layer (SpecSplit)
    pieces,        \* how the input text was put together (history only)
    decoded,       \* the text data.decode(encoding) gave, before .strip()
    json_str,      \* the stripped text handed to json.loads
    parsed,        \* convertor _parse_json: the returned list
    attempts,      \* _parse_fragmented: every json.loads(buffer) it made
    legacy_objects, \* legacy parse: self.parsed_objects after the loop
    encoding,      \* _decode_data: the encoding whose decode was returned
    legacy_str,    \* legacy parse: json_str, or Raised when decoding raised
    \* ---- record layer (SpecRecord)
    segments,      \* the extracted frames (raw bytes), in scan order
    parsed_data,   \* the list _parse_json returned / self.parsed_objects
    clock,         \* what datetime.now() returns during the call
    violation,     \* convertor _build_violation: the returned dict
    result,        \* convertor parse: the returned value
    legacy_record, \* legacy _parse_json: the returned dict, or None
    calls,         \* the invocations sharing one parser instance
    \* ---- orchestrator layer (SpecFlow)
    flow,          \* which processing flow runs
    violations,    \* the rows get_new_violations returned
    cursor,        \* the for loop: index of the next violation
    attempted,     \* indices of the violations whose loop body was entered
    delivered,     \* the send_violation calls made: index and payload
    db_connection, \* DatabaseConnect.connection: "open" or "closed"
    ftp_connection, \* FTPClient.connection: "open", or "none" for None
    escaped,       \* whether an exception left the processing flow
    start_date     \* main.py: config['processing']['start_date']

byte_vars == <<data, pos, frames, ranges, iters, json_data, legacy_region>>
text_vars == <<pieces, decoded, json_str, parsed, attempts, legacy_objects,
              encoding, legacy_str>>
record_vars == <<segments, parsed_data, clock, violation, result, legacy_record, calls>>

flow_vars == <<flow, violations, cursor, attempted, delivered, db_connection,
              ftp_connection, escaped, start_date>>

vars == <<pc, byte_vars, text_vars, record_vars, flow_vars>>

(***************************************************************************)
(* Bounds of the model.                                                    *)
(***************************************************************************)
MaxLen == 8
MaxPieces == 3
MaxFrames == 3
MaxObjects == 2
MaxRegion == 4
MaxChunks == 5
MaxCalls == 3

(***************************************************************************)
(* Generic helpers.                                                        *)
(***************************************************************************)
\* All sequences over S of length 0..n.
SeqsUpTo(S, n) == UNION {[1..k -> S] : k \in 0..n}

\* Python slice d[a:b] for 0 <= a, with b clipped to len(d).
Slice(d, a, b) ==
    LET hi == IF b > Len(d) THEN Len(d) ELSE b
    IN  IF a >= hi THEN <<>> ELSE SubSeq(d, a + 1, hi)

Min(S) == CHOOSE x \in S : \A y \in S : x <= y
Max(S) == CHOOSE x \in S : \A y \in S : x >= y

(***************************************************************************)
(* JPEG markers.  JpegParser.JPEG_MARKERS = (b'\xff\xd8', b'\xff\xd9').    *)
(***************************************************************************)
SOI == <<255, 216>>
EOI == <<255, 217>>

\* The byte values buffers are drawn from: the three bytes the markers are
\* made of, and one byte (0) that is part of no marker.
ByteVals == {255, 216, 217, 0}

\* Whether the 2-byte marker m occurs in d at (0-based) position p.
MarkerAt(d, m, p) ==
    /\ p >= 0
    /\ p + 2 <= Len(d)
    /\ d[p + 1] = m[1]
    /\ d[p + 2] = m[2]

\* bytes.find(m, from): the lowest position >= from where m occurs, else -1.
Find(d, m, from) ==
    LET hits == {p \in from..(Len(d) - 2) : MarkerAt(d, m, p)}
    IN  IF hits = {} THEN -1 ELSE Min(hits)

\* bytes.rfind(m): the highest position where m occurs, else -1.
RFind(d, m) ==
    LET hits == {p \in 0..(Len(d) - 2) : MarkerAt(d, m, p)}
    IN  IF hits = {} THEN -1 ELSE Max(hits)

(***************************************************************************)
(* base64.b64encode(frame).decode('utf-8').  A base64 text is modelled as  *)
(* the sequence of its characters.                                         *)
(***************************************************************************)
B64Alphabet ==
    << "A","B","C","D","E","F","G","H","I","J","K","L","M","N","O","P",
       "Q","R","S","T","U","V","W","X","Y","Z","a","b","c","d","e","f",
       "g","h","i","j","k","l","m","n","o","p","q","r","s","t","u","v",
       "w","x","y","z","0","1","2","3","4","5","6","7","8","9","+","/" >>

B64Char(n) == B64Alphabet[n + 1]

\* One group of 1..3 bytes -> 4 characters, padded with "=".
B64Group(g) ==
    LET b1 == g[1]
        b2 == IF Len(g) >= 2 THEN g[2] ELSE 0
        b3 == IF Len(g) >= 3 THEN g[3] ELSE 0
        c1 == B64Char(b1 \div 4)
        c2 == B64Char((b1 % 4) * 16 + (b2 \div 16))
        c3 == IF Len(g) >= 2 THEN B64Char((b2 % 16) * 4 + (b3 \div 64)) ELSE "="
        c4 == IF Len(g) >= 3 THEN B64Char(b3 % 64) ELSE "="
    IN  <<c1, c2, c3, c4>>

RECURSIVE B64Encode(_)
B64Encode(bs) ==
    IF bs = <<>> THEN <<>>
    ELSE IF Len(bs) <= 3 THEN B64Group(bs)
    ELSE B64Group(SubSeq(bs, 1, 3)) \o B64Encode(SubSeq(bs, 4, Len(bs)))

(***************************************************************************)
(* JpegParser._extract_frames (convertor) / _extract_jpeg_segments         *)
(* (legacy): the same scan; the convertor base64-encodes each frame as it  *)
(* is emitted.                                                             *)
(***************************************************************************)
\* start_pos = data.find(JPEG_MARKERS[0], pos)
StartOfFrame(d, p) == Find(d, SOI, p)

\* end_pos = data.find(JPEG_MARKERS[1], start_pos)
EndOfFrame_FromZero(d, start_pos) == Find(d, EOI, 0)
EndOfFrame_OrBufferEnd(d, start_pos) ==
    IF Find(d, EOI, start_pos) = -1 THEN Len(d) - 2 ELSE Find(d, EOI, start_pos)
EndOfFrame(d, start_pos) == Find(d, EOI, start_pos)

\* frame = data[start_pos:end_pos + 2]
FrameBytes(d, start_pos, end_pos) == Slice(d, start_pos, end_pos + 2)

\* JpegParser._extract_json: data[last_frame_end + 2:] or b''.
ExtractJson_First(d) ==
    LET e == Find(d, EOI, 0)
    IN  IF e # -1 THEN Slice(d, e + 2, Len(d)) ELSE <<>>
ExtractJson(d) ==
    LET last_frame_end == RFind(d, EOI)
    IN  IF last_frame_end # -1 THEN Slice(d, last_frame_end + 2, Len(d)) ELSE <<>>

\* Legacy parse, lines 68-72: the same region, but a missing end marker
\* raises ValueError (caught at line 100, parse returns None).
Raised == <<-1>>
LegacyRegion(d) ==
    LET jpeg_end == RFind(d, EOI)
    IN  IF jpeg_end = -1 THEN Raised ELSE Slice(d, jpeg_end + 2, Len(d))

(***************************************************************************)
(* JSON values, as json.loads builds them.  A Python str is the sequence   *)
(* of its characters (one-character strings); a dict is the sequence of    *)
(* its <<key, value>> items in insertion order.                            *)
(***************************************************************************)
Num(n)  == [t |-> "num", v |-> n]
Str(cs) == [t |-> "str", v |-> cs]
Arr(es) == [t |-> "arr", v |-> es]
Obj(ms) == [t |-> "obj", v |-> ms]
None    == [t |-> "null", v |-> 0]

IsDict(x) == x.t = "obj"
IsList(x) == x.t = "arr"
IsStr(x)  == x.t = "str"
IsNum(x)  == x.t = "num"

\* key in d
HasKey(d, k) == \E i \in 1..Len(d.v) : d.v[i][1] = k

\* d[k] for a key that is present
Item(d, k) == d.v[CHOOSE i \in 1..Len(d.v) : d.v[i][1] = k][2]

\* d.get(k, default)
Get(d, k, default) == IF HasKey(d, k) THEN Item(d, k) ELSE default

\* d[k] = x : a present key keeps its place and takes the new value.
Put(d, k, x) ==
    IF HasKey(d, k)
    THEN Obj([i \in 1..Len(d.v) |-> IF d.v[i][1] = k THEN <<k, x>> ELSE d.v[i]])
    ELSE Obj(Append(d.v, <<k, x>>))

(***************************************************************************)
(* json.loads on a text without escapes, signs, fractions or literals:     *)
(* objects, arrays, strings, unsigned integers and whitespace.             *)
(***************************************************************************)
Quote == "\""
Whitespace == {" "}
DigitChars == {"1", "2"}
DigitValue(c) == IF c = "1" THEN 1 ELSE 2

\* The first index >= i that holds no whitespace (Len + 1 at the end).
SkipWs(txt, i) ==
    Min({j \in i..(Len(txt) + 1) : j > Len(txt) \/ txt[j] \notin Whitespace})

Fail == [ok |-> FALSE, val |-> None, next |-> 0]
Done(val, next) == [ok |-> TRUE, val |-> val, next |-> next]

\* A string starting at the quote txt[i]: up to the next quote.
ParseString(txt, i) ==
    LET closes == {j \in (i + 1)..Len(txt) : txt[j] = Quote}
    IN  IF closes = {} THEN Fail
        ELSE Done(SubSeq(txt, i + 1, Min(closes) - 1), Min(closes) + 1)

\* An unsigned integer starting at the digit txt[i]: the longest digit run.
RECURSIVE DigitsValue(_)
DigitsValue(ds) ==
    IF ds = <<>> THEN 0
    ELSE 10 * DigitsValue(SubSeq(ds, 1, Len(ds) - 1)) + DigitValue(ds[Len(ds)])

ParseNumber(txt, i) ==
    LET stop == Min({j \in i..(Len(txt) + 1) : j > Len(txt) \/ txt[j] \notin DigitChars})
    IN  Done(Num(DigitsValue(SubSeq(txt, i, stop - 1))), stop)

RECURSIVE ParseValue(_, _), ParseMembers(_, _, _), ParseElements(_, _, _)

\* The value starting at txt[i] (whitespace already skipped).
ParseValue(txt, i) ==
    IF i > Len(txt) THEN Fail
    ELSE IF txt[i] = Quote THEN
        LET r == ParseString(txt, i)
        IN  IF r.ok THEN Done(Str(r.val), r.next) ELSE Fail
    ELSE IF txt[i] \in DigitChars THEN ParseNumber(txt, i)
    ELSE IF txt[i] = "{" THEN
        LET j == SkipWs(txt, i + 1)
        IN  IF j <= Len(txt) /\ txt[j] = "}" THEN Done(Obj(<<>>), j + 1)
            ELSE ParseMembers(txt, j, Obj(<<>>))
    ELSE IF txt[i] = "[" THEN
        LET j == SkipWs(txt, i + 1)
        IN  IF j <= Len(txt) /\ txt[j] = "]" THEN Done(Arr(<<>>), j + 1)
            ELSE ParseElements(txt, j, <<>>)
    ELSE Fail

\* "key" : value , ... } with acc the members read so far.
ParseMembers(txt, i, acc) ==
    IF i > Len(txt) \/ txt[i] # Quote THEN Fail
    ELSE
        LET k == ParseString(txt, i)
        IN  IF ~k.ok THEN Fail
            ELSE
                LET c == SkipWs(txt, k.next)
                IN  IF c > Len(txt) \/ txt[c] # ":" THEN Fail
                    ELSE
                        LET x == ParseValue(txt, SkipWs(txt, c + 1))
                        IN  IF ~x.ok THEN Fail
                            ELSE
                                LET e == SkipWs(txt, x.next)
                                    acc2 == Put(acc, k.val, x.val)
                                IN  IF e > Len(txt) THEN Fail
                                    ELSE IF txt[e] = "}" THEN Done(acc2, e + 1)
                                    ELSE IF txt[e] = ","
                                         THEN ParseMembers(txt, SkipWs(txt, e + 1), acc2)
                                    ELSE Fail

\* value , ... ] with acc the elements read so far.
ParseElements(txt, i, acc) ==
    LET x == ParseValue(txt, i)
    IN  IF ~x.ok THEN Fail
        ELSE
            LET e == SkipWs(txt, x.next)
                acc2 == Append(acc, x.val)
            IN  IF e > Len(txt) THEN Fail
                ELSE IF txt[e] = "]" THEN Done(Arr(acc2), e + 1)
                ELSE IF txt[e] = ","
                     THEN ParseElements(txt, SkipWs(txt, e + 1), acc2)
                ELSE Fail

\* json.loads(txt): [ok, val]; ok is FALSE where Python raises
\* JSONDecodeError (no value, or extra data after it).
JsonLoads(txt) ==
    LET r == ParseValue(txt, SkipWs(txt, 1))
    IN  IF r.ok /\ SkipWs(txt, r.next) > Len(txt)
        THEN [ok |-> TRUE, val |-> r.val]
        ELSE [ok |-> FALSE, val |-> None]

\* str.strip()
Strip(txt) ==
    LET keep == {j \in 1..Len(txt) : txt[j] \notin Whitespace}
    IN  IF keep = {} THEN <<>> ELSE SubSeq(txt, Min(keep), Max(keep))

(***************************************************************************)
(* JpegParser._parse_fragmented (convertor).  The loop state is            *)
(* [result, buffer, depth]; `attempts` records every json.loads(buffer)    *)
(* the loop makes: the 1-based positions of the buffer's first and last    *)
(* character in the text, and whether it parsed.                           *)
(***************************************************************************)
FragStart == [result |-> <<>>, buffer |-> <<>>, depth |-> 0, attempts |-> <<>>]

\* Line 135: buffer = "" after a successful append; line 137: the except
\* branch only logs.
BufferAfterAttempt_Keep(buffer, ok) == buffer
BufferAfterAttempt(buffer, ok) == IF ok THEN <<>> ELSE buffer

\* The body of `for char in json_str` for the character at position i.
FragChar(st, txt, i) ==
    LET char   == txt[i]
        buffer == Append(st.buffer, char)
        depth  == IF char = "{" THEN st.depth + 1
                  ELSE IF char = "}" THEN st.depth - 1
                  ELSE st.depth
    IN  IF char = "}" /\ depth = 0
        THEN LET r == JsonLoads(buffer)
             IN  [result   |-> IF r.ok THEN Append(st.result, r.val) ELSE st.result,
                  buffer   |-> BufferAfterAttempt(buffer, r.ok),
                  depth    |-> depth,
                  attempts |-> Append(st.attempts,
                                      [first |-> i - Len(buffer) + 1,
                                       last  |-> i,
                                       ok    |-> r.ok])]
        ELSE [result |-> st.result, buffer |-> buffer, depth |-> depth,
              attempts |-> st.attempts]

\* `for char in json_str` over the positions lo..hi, from the state st
\* before them.  The range is taken in two halves, the second from the
\* state `half` that the first leaves.
RECURSIVE FragLoop(_, _, _, _)
FragLoop(st, txt, lo, hi) ==
    IF lo > hi THEN st
    ELSE IF lo = hi THEN FragChar(st, txt, lo)
    ELSE LET mid == (lo + hi) \div 2
         IN  CHOOSE after \in {FragLoop(half, txt, mid + 1, hi) :
                                 half \in {FragLoop(st, txt, lo, mid)}} : TRUE

ParseFragmented(txt) == FragLoop(FragStart, txt, 1, Len(txt))

\* JpegParser._parse_json (convertor), after _decode_data: the whole text
\* first, the brace-depth scan when json.loads raises.
WrapParsed(value) == IF ~IsList(value) THEN <<value>> ELSE value.v

ParseJsonText(txt) ==
    LET whole == JsonLoads(txt)
    IN  IF whole.ok THEN WrapParsed(whole.val)
        ELSE ParseFragmented(txt).result

(***************************************************************************)
(* Legacy parse, lines 80-98: split on "}{", re-wrap, json.loads each.     *)
(***************************************************************************)
\* str.split("}{"): non-overlapping occurrences, left to right.
\* The pieces of txt from position i on: up to the first occurrence at or
\* after i, then the pieces after it.
RECURSIVE SplitOnBraces(_, _)
SplitOnBraces(txt, i) ==
    LET found == {j \in i..(Len(txt) - 1) : txt[j] = "}" /\ txt[j + 1] = "{"}
    IN  IF found = {} THEN <<SubSeq(txt, i, Len(txt))>>
        ELSE <<SubSeq(txt, i, Min(found) - 1)>> \o SplitOnBraces(txt, Min(found) + 2)

StartsWith(cs, c) == Len(cs) >= 1 /\ cs[1] = c
EndsWith(cs, c)   == Len(cs) >= 1 /\ cs[Len(cs)] = c

\* Lines 82-87: the two re-wrapping passes over one piece.
Rewrap(piece) ==
    LET opened == IF ~StartsWith(piece, "{") THEN <<"{">> \o piece ELSE piece
    IN  IF ~EndsWith(opened, "}") THEN Append(opened, "}") ELSE opened

RECURSIVE LoadEach_Reversed(_)
LoadEach_Reversed(texts) ==
    IF texts = <<>> THEN <<>>
    ELSE LET r == JsonLoads(texts[1])
             rest == LoadEach_Reversed(Tail(texts))
         IN  IF r.ok THEN rest \o <<r.val>> ELSE rest

RECURSIVE LoadEach(_)
LoadEach(texts) ==
    IF texts = <<>> THEN <<>>
    ELSE LET r == JsonLoads(texts[1])
             rest == LoadEach(Tail(texts))
         IN  IF r.ok THEN <<r.val>> \o rest ELSE rest

\* self.parsed_objects after the loop of lines 90-96.
LegacySplitObjects(txt) ==
    LET json_objects == SplitOnBraces(Strip(txt), 1)
    IN  LoadEach([i \in 1..Len(json_objects) |-> Rewrap(json_objects[i])])

(***************************************************************************)
(* Python values beyond the JSON ones above, and the conversions the       *)
(* field derivations apply to them.                                        *)
(***************************************************************************)
\* A float: (-1)^neg * m / 10^e, with m not divisible by 10 unless e = 0.
Float(neg, m, e) == [t |-> "float", v |-> <<IF neg THEN 1 ELSE 0, m, e>>]
ZeroFloat == Float(FALSE, 0, 0)

\* bool(x), as `if not x` and `if mark or model` evaluate it.
Truthy(x) ==
    IF x.t = "null" THEN FALSE
    ELSE IF x.t = "num" THEN x.v # 0
    ELSE IF x.t = "float" THEN x.v[2] # 0
    ELSE Len(x.v) > 0

DecimalChars == <<"0", "1", "2", "3", "4", "5", "6", "7", "8", "9">>
IsDecimal(c) == \E k \in 1..10 : DecimalChars[k] = c
DecimalValue(c) == (CHOOSE k \in 1..10 : DecimalChars[k] = c) - 1

\* The value of a run of decimal digits.
RECURSIVE DecimalRun(_)
DecimalRun(cs) ==
    IF cs = <<>> THEN 0
    ELSE 10 * DecimalRun(SubSeq(cs, 1, Len(cs) - 1)) + DecimalValue(cs[Len(cs)])

\* The decimal digits of n >= 0, at least `width` of them (zero padded).
RECURSIVE Digits(_, _)
Digits(n, width) ==
    IF n < 10 /\ width <= 1 THEN <<DecimalChars[n + 1]>>
    ELSE Append(Digits(n \div 10, width - 1), DecimalChars[(n % 10) + 1])

\* str(x) for the values an f-string is given here.
PyStr(x) ==
    IF x.t = "str" THEN x.v
    ELSE IF x.t = "num" THEN (IF x.v < 0 THEN <<"-">> \o Digits(-x.v, 1) ELSE Digits(x.v, 1))
    ELSE IF x.t = "null" THEN <<"N", "o", "n", "e">>
    ELSE <<"<", x.t, ">">>

\* The characters of cs that are not c: str.replace(c, "").
Without(cs, c) == SelectSeq(cs, LAMBDA x : x # c)

\* int(x) / float(x) of a str succeed on an optionally signed run of
\* decimal digits (surrounding whitespace allowed); [ok, val].
NumericText(cs) ==
    LET body == Strip(cs)
        neg  == Len(body) >= 1 /\ body[1] = "-"
        run  == IF neg THEN Tail(body) ELSE body
    IN  IF Len(run) >= 1 /\ \A k \in 1..Len(run) : IsDecimal(run[k])
        THEN [ok |-> TRUE, val |-> IF neg THEN -DecimalRun(run) ELSE DecimalRun(run)]
        ELSE [ok |-> FALSE, val |-> 0]

\* int(x) and float(x) on an int, or on a str holding one; anything else
\* (None, dict, list, a non-numeric str) raises TypeError / ValueError.
ToInt(x) ==
    IF x.t = "num" THEN [ok |-> TRUE, val |-> x.v]
    ELSE IF x.t = "str" THEN NumericText(x.v)
    ELSE [ok |-> FALSE, val |-> 0]

(***************************************************************************)
(* datetime: an instant is [sec, ms], seconds since the epoch and the      *)
(* milliseconds within the second; strftime('%Y-%m-%dT%H:%M:%S.%f')[:-3]   *)
(* renders it.                                                             *)
(***************************************************************************)
Instant(sec, ms) == [sec |-> sec, ms |-> ms]

\* dt + timedelta(milliseconds = ms, hours = hours)
AddDelta(dt, ms, hours) ==
    LET total == dt.ms + ms
    IN  Instant(dt.sec + hours * 3600 + (total \div 1000), total % 1000)

\* The civil date of day number z (days since 1970-01-01), z >= -719468.
CivilFromDays(z0) ==
    LET z   == z0 + 719468
        era == z \div 146097
        doe == z - era * 146097
        yoe == (doe - (doe \div 1460) + (doe \div 36524) - (doe \div 146096)) \div 365
        doy == doe - (365 * yoe + (yoe \div 4) - (yoe \div 100))
        mp  == (5 * doy + 2) \div 153
        dd  == doy - ((153 * mp + 2) \div 5) + 1
        mm  == IF mp < 10 THEN mp + 3 ELSE mp - 9
        yy  == yoe + era * 400 + (IF mm <= 2 THEN 1 ELSE 0)
    IN  [y |-> yy, m |-> mm, d |-> dd]

IsoMillis(dt) ==
    LET date == CivilFromDays(dt.sec \div 86400)
        sod  == dt.sec % 86400
    IN  Digits(date.y, 4) \o <<"-">> \o Digits(date.m, 2) \o <<"-">> \o Digits(date.d, 2)
        \o <<"T">> \o Digits(sod \div 3600, 2) \o <<":">> \o Digits((sod % 3600) \div 60, 2)
        \o <<":">> \o Digits(sod % 60, 2) \o <<".">> \o Digits(dt.ms, 3)

(***************************************************************************)
(* JpegParser._parse_timestamp.  `now` is what datetime.now() returns.     *)
(***************************************************************************)
\* timezone_offset = int(...) * 360 ; hours = timezone_offset // 3600
TimezoneScale == 360
HoursOfTimezone(tz) == (tz * TimezoneScale) \div 3600

\* The same derivation falling back on the epoch instead of the current
\* time.
ParseTimestamp_EpochFallback(section, now) ==
    IF ~IsDict(section) THEN IsoMillis(Instant(0, 0))
    ELSE
        LET utc_timestamp == Get(section, "UTC", None)
            seconds       == ToInt(utc_timestamp)
            milliseconds  == ToInt(Get(section, "ms", Num(0)))
            timezone      == ToInt(Get(section, "timezone", Num(0)))
        IN  IF ~Truthy(utc_timestamp) THEN IsoMillis(Instant(0, 0))
            ELSE IF ~seconds.ok \/ ~milliseconds.ok \/ ~timezone.ok
                 THEN IsoMillis(Instant(0, 0))
            ELSE IsoMillis(AddDelta(Instant(seconds.val, 0), milliseconds.val,
                                    HoursOfTimezone(timezone.val)))

\* Convertor lines 184-199; `section` is violation_info.
ParseTimestamp(section, now) ==
    IF ~IsDict(section) THEN IsoMillis(now)
    ELSE
        LET utc_timestamp == Get(section, "UTC", None)
            seconds       == ToInt(utc_timestamp)
            milliseconds  == ToInt(Get(section, "ms", Num(0)))
            timezone      == ToInt(Get(section, "timezone", Num(0)))
        IN  IF ~Truthy(utc_timestamp) THEN IsoMillis(now)
            ELSE IF ~seconds.ok \/ ~milliseconds.ok \/ ~timezone.ok THEN IsoMillis(now)
            ELSE IsoMillis(AddDelta(Instant(seconds.val, 0), milliseconds.val,
                                    HoursOfTimezone(timezone.val)))

\* Legacy lines 121-136: the same, reading violation_info out of the
\* object itself (a non-dict object or section raises inside the try).
LegacyParseTimestamp(obj, now) ==
    IF ~IsDict(obj) THEN IsoMillis(now)
    ELSE ParseTimestamp(Get(obj, "violation_info", Obj(<<>>)), now)

(***************************************************************************)
(* JpegParser._parse_coordinate (both variants).                           *)
(***************************************************************************)
\* re.sub(r'[^0-9.-]', '', coord)
CleanCoordinate(cs) == SelectSeq(cs, LAMBDA c : IsDecimal(c) \/ c = "." \/ c = "-")

\* Drop trailing zeros of the fraction: m / 10^e in lowest form.
RECURSIVE Normalized(_, _, _)
Normalized(neg, m, e) ==
    IF e > 0 /\ m % 10 = 0 THEN Normalized(neg, m \div 10, e - 1) ELSE Float(neg, m, e)

\* float(text) for a text of digits, "." and "-": [ok, val].
FloatOfText(cs) ==
    LET neg   == Len(cs) >= 1 /\ cs[1] = "-"
        body  == IF neg THEN Tail(cs) ELSE cs
        dots  == {k \in 1..Len(body) : body[k] = "."}
        digs  == SelectSeq(body, IsDecimal)
        wellformed ==
            /\ Cardinality(dots) <= 1
            /\ Len(digs) >= 1
            /\ Len(digs) + Cardinality(dots) = Len(body)
        frac  == IF dots = {} THEN 0 ELSE Len(body) - Min(dots)
    IN  IF wellformed THEN [ok |-> TRUE, val |-> Normalized(neg, DecimalRun(digs), frac)]
        ELSE [ok |-> FALSE, val |-> ZeroFloat]

ParseCoordinate(coord) ==
    IF coord.t = "null" THEN ZeroFloat
    ELSE IF coord.t = "str" THEN
        LET cleaned == CleanCoordinate(coord.v)
        IN  IF cleaned = <<>> THEN ZeroFloat ELSE FloatOfText(cleaned).val
    ELSE IF coord.t = "num" THEN Float(coord.v < 0, IF coord.v < 0 THEN -coord.v ELSE coord.v, 0)
    ELSE IF coord.t = "float" THEN coord
    ELSE ZeroFloat

(***************************************************************************)
(* Building the record.  An operation that can raise returns               *)
(* [raised, val]; the caller's except clause decides what a raise becomes. *)
(***************************************************************************)
Ok(x)    == [raised |-> FALSE, val |-> x]
Raise    == [raised |-> TRUE, val |-> None]
EmptyDict == Obj(<<>>)

\* dict.update(other)
RECURSIVE UpdateFrom(_, _, _)
UpdateFrom(d, other, i) ==
    IF i > Len(other.v) THEN d
    ELSE UpdateFrom(Put(d, other.v[i][1], other.v[i][2]), other, i + 1)
Update(d, other) == UpdateFrom(d, other, 1)

\* x.get(k, default) on a value that may not be a dict (AttributeError).
GetAttr(x, k, default) == IF IsDict(x) THEN Ok(Get(x, k, default)) ELSE Raise

\* JpegParser._parse_recognizer_data (convertor, lines 239-252).
VehicleModelText_Bare(mark, model) == PyStr(mark) \o <<"/">> \o PyStr(model)
VehicleModelText(mark, model) == <<"(">> \o PyStr(mark) \o <<"/">> \o PyStr(model) \o <<")">>

ParseRecognizerData(rdata) ==
    IF ~IsDict(rdata) THEN Raise
    ELSE
        LET plate == Get(rdata, "plate_chars", Str(<<>>))
            mark  == Get(rdata, "mark", Str(<<>>))
            model == Get(rdata, "model", Str(<<>>))
            base  == Obj(<< <<"v_regno", Str(Without(plate.v, "|"))>>,
                            <<"v_regno_country_id", Get(rdata, "plate_code", None)>> >>)
        IN  IF ~IsStr(plate) THEN Raise
            ELSE IF Truthy(mark) \/ Truthy(model)
                 THEN Ok(Put(base, "v_ts_model", Str(VehicleModelText(mark, model))))
            ELSE Ok(base)

\* Lines 159-162: the GPS fields.
GpsStage(acc, last_data) ==
    IF ~HasKey(last_data, "installation_place_info") THEN Ok(acc)
    ELSE
        LET place_data == Item(last_data, "installation_place_info")
        IN  IF ~IsDict(place_data) THEN Raise
            ELSE Ok(Put(Put(acc,
                            "v_gps_x", ParseCoordinate(Get(place_data, "latitude", None))),
                            "v_gps_y", ParseCoordinate(Get(place_data, "longitude", None))))

\* Lines 165-167: the recognizer fields.
RecognizerStage(acc, last_data) ==
    IF ~HasKey(last_data, "recogniser_info") THEN Ok(acc)
    ELSE
        LET r == ParseRecognizerData(Item(last_data, "recogniser_info"))
        IN  IF r.raised THEN Raise ELSE Ok(Update(acc, r.val))

\* Lines 170-175: the device fields.
DeviceStage(acc, last_data) ==
    IF ~HasKey(last_data, "device_info") THEN Ok(acc)
    ELSE
        LET device_data == Item(last_data, "device_info")
        IN  IF ~IsDict(device_data) THEN Raise
            ELSE Ok(Put(Put(acc,
                            "v_camera", Get(device_data, "name_speed_meter", None)),
                            "v_camera_serial", Get(device_data, "factory_number", None)))

\* last_data = data[-1]
LastData(objects) == objects[Len(objects)]

\* What the except clause of line 178 turns a raise into.
OnBuildError(partial) == EmptyDict

\* JpegParser._build_violation (convertor, lines 140-180).  frame_texts are
\* the base64 texts, objects the parsed list, now the current time.
BuildViolation(frame_texts, objects, now) ==
    IF frame_texts = <<>> \/ objects = <<>> THEN EmptyDict
    ELSE
        LET last_data == LastData(objects)
            photo     == Put(EmptyDict, "v_photo_ts", Str(frame_texts[1]))
            photos    == IF Len(frame_texts) > 1
                         THEN Put(photo, "v_photo_extra",
                                  Arr([i \in 1..(Len(frame_texts) - 1) |-> Str(frame_texts[i + 1])]))
                         ELSE photo
        IN  IF ~IsDict(last_data) THEN OnBuildError(photos)
            ELSE
                LET timed == Put(photos, "v_time_check",
                                 Str(ParseTimestamp(Get(last_data, "violation_info", EmptyDict), now)))
                    gps   == GpsStage(timed, last_data)
                    rec   == IF gps.raised THEN Raise ELSE RecognizerStage(gps.val, last_data)
                    dev   == IF rec.raised THEN Raise ELSE DeviceStage(rec.val, last_data)
                IN  IF gps.raised THEN OnBuildError(timed)
                    ELSE IF rec.raised THEN OnBuildError(gps.val)
                    ELSE IF dev.raised THEN OnBuildError(rec.val)
                    ELSE dev.val

\* Values json.loads never builds: a bool is not among the inputs of the
\* other layers, a datetime holds an instant, and Opaque stands for an
\* object of any other class, whose str() is PyStr's "<class>" text.
Bool(b)      == [t |-> "bool", v |-> b]
Datetime(dt) == [t |-> "datetime", v |-> dt]
Opaque       == [t |-> "set", v |-> 0]

\* datetime.isoformat(): no fraction when the microseconds are zero, six
\* digits otherwise.
IsoFormat(dt) ==
    IF dt.ms = 0 THEN SubSeq(IsoMillis(dt), 1, 19)
    ELSE IsoMillis(dt) \o <<"0", "0", "0">>

\* JpegParser._json_serializer (lines 264-272).
JsonSerializer(obj) == IF obj.t = "datetime" THEN IsoFormat(obj.v) ELSE PyStr(obj)

\* The same pass without the default= hook reaching into containers.
EnsureSerializable_TopLevel(x) ==
    IF x.t = "obj"
    THEN Obj([i \in 1..Len(x.v) |->
                <<x.v[i][1],
                  IF x.v[i][2].t \in {"num", "float", "str", "null", "bool", "arr", "obj"}
                  THEN x.v[i][2] ELSE Str(JsonSerializer(x.v[i][2]))>>])
    ELSE x

\* JpegParser._ensure_serializable (the later definition, lines 254-272):
\* json.dumps with default=_json_serializer, then json.loads.  The JSON
\* kinds come back as they were; any other kind comes back as the text
\* _json_serializer gives.
RECURSIVE EnsureSerializable(_)
EnsureSerializable(x) ==
    IF x.t \in {"num", "float", "str", "null", "bool"} THEN x
    ELSE IF x.t = "arr" THEN Arr([i \in 1..Len(x.v) |-> EnsureSerializable(x.v[i])])
    ELSE IF x.t = "obj"
         THEN Obj([i \in 1..Len(x.v) |-> <<x.v[i][1], EnsureSerializable(x.v[i][2])>>])
    ELSE Str(JsonSerializer(x))

\* JpegParser.parse (convertor), lines 60-61, once validation, frame
\* extraction and _parse_json have returned: no exception can leave
\* _build_violation, so a dict is returned.
ParseReturn(frame_texts, objects, now) ==
    EnsureSerializable(BuildViolation(frame_texts, objects, now))

(***************************************************************************)
(* Legacy JpegParser._parse_json (lines 138-197): the record built from    *)
(* self.parsed_objects and self.segments.  It returns None where the       *)
(* method's except clause does.                                            *)
(***************************************************************************)
\* models.Abbreviation.get_country_code / get_vehicle_type: app/models is
\* not part of the sources; the lookups are taken to return their argument.
GetCountryCode(code) == code
GetVehicleType(code) == code

\* The direction labels (Cyrillic in the source).
Oncoming      == Str(<<"Vstrechnoe">>)
SameDirection == Str(<<"Poputnoe">>)

\* x == 0
IsZero(x) == (x.t = "num" /\ x.v = 0) \/ (x.t = "float" /\ x.v[2] = 0)

\* data = self.parsed_objects[1]
LegacyAuthoritative(objects) == IF Len(objects) >= 2 THEN Ok(objects[2]) ELSE Raise

\* x.replace(c, "") on a value that may not be a str (AttributeError).
ReplaceAttr(x, c) == IF IsStr(x) THEN Ok(Str(Without(x.v, c))) ELSE Raise

\* Lines 158-169: photo_main1 and common_extra from the segments.
LegacyPhotos(segs) ==
    IF segs = <<>> THEN Ok([main |-> Arr(<<>>), extra |-> Arr(<<Arr(<<>>)>>)])
    ELSE IF Len(segs) < 3 THEN Raise
    ELSE Ok([main  |-> Str(B64Encode(segs[1])),
             extra |-> Arr(<<Obj(<< <<"vtypePhoto", Num(1)>>,
                                    <<"vphotoExtra", Str(B64Encode(segs[3]))>> >>)>>)])

LegacyBuild(objects, segs, now) ==
    IF objects = <<>> THEN None
    ELSE
        LET chosen == LegacyAuthoritative(objects)
            obj    == chosen.val
            place  == Get(obj, "installation_place_info", EmptyDict)
            vinfo  == Get(obj, "violation_info", EmptyDict)
            rinfo  == Get(obj, "recogniser_info", EmptyDict)
            dinfo  == Get(obj, "device_info", EmptyDict)
            gps_x  == ReplaceAttr(Get(place, "latitude", None), "N")
            gps_y  == ReplaceAttr(Get(place, "longitude", None), "E")
            photos == LegacyPhotos(segs)
            regno  == ReplaceAttr(Get(rinfo, "plate_chars", Str(<<>>)), "|")
            direct == IF IsZero(Get(vinfo, "direction", None)) THEN Oncoming ELSE SameDirection
        IN  IF chosen.raised \/ ~IsDict(obj) THEN None
            ELSE IF ~IsDict(place) \/ gps_x.raised \/ gps_y.raised THEN None
            ELSE IF ~IsDict(vinfo) THEN None
            ELSE IF photos.raised THEN None
            ELSE IF ~IsDict(dinfo) THEN None
            ELSE IF ~IsDict(rinfo) \/ regno.raised THEN None
            ELSE Obj(<<
                <<"v_azimut", None>>,
                <<"v_camera", Get(dinfo, "name_speed_meter", None)>>,
                <<"v_camera_serial", Get(dinfo, "factory_number", None)>>,
                <<"v_camera_place", Get(place, "place", None)>>,
                <<"v_direction", direct>>,
                <<"v_direction_name", None>>,
                <<"v_gps_x", gps_x.val>>,
                <<"v_gps_y", gps_y.val>>,
                <<"v_photo_ts", photos.val.main>>,
                <<"v_pr_viol", Arr(<<Get(vinfo, "crime_reason", None)>>)>>,
                <<"v_regno", regno.val>>,
                <<"v_regno_country_id", GetCountryCode(Get(rinfo, "plate_code", None))>>,
                <<"v_speed", Get(vinfo, "speed", None)>>,
                <<"v_self_speed", Get(vinfo, "self_speed", None)>>,
                <<"v_speed_limit", Get(place, "speed_limit", None)>>,
                <<"v_time_check", Str(LegacyParseTimestamp(obj, now))>>,
                <<"v_ts_type", GetVehicleType(Get(vinfo, "type", None))>>,
                <<"v_ts_model", Str(PyStr(Get(rinfo, "mark", Str(<<>>))) \o <<"/">>
                                    \o PyStr(Get(rinfo, "model", Str(<<>>))))>>,
                <<"photo_extra", photos.val.extra>> >>)

(***************************************************************************)
(* The variables of a layer a specification does not exercise stay at      *)
(* these values.                                                           *)
(***************************************************************************)
(***************************************************************************)
(* JpegParser._validate_input (convertor, lines 70-75) and the legacy      *)
(* segment scan as a function of the buffer.                               *)
(***************************************************************************)
\* Line 72: len(data) < 10
MinLength == 10

\* Whether _validate_input raises ParserError.
InvalidInput_LengthOnly(d) == Len(d) < MinLength
InvalidInput(d) ==
    \/ d = <<>>
    \/ Len(d) < MinLength
    \/ ~MarkerAt(d, SOI, 0)

\* Legacy _extract_jpeg_segments, lines 36-47: the raw segments found
\* from position p on.
RECURSIVE SegmentsFrom(_, _)
SegmentsFrom(d, p) ==
    LET start_pos == Find(d, SOI, p)
        end_pos   == Find(d, EOI, start_pos)
    IN  IF start_pos = -1 \/ end_pos = -1 THEN <<>>
        ELSE <<Slice(d, start_pos, end_pos + 2)>> \o SegmentsFrom(d, end_pos + 2)

LegacySegments(d) == SegmentsFrom(d, 0)

(***************************************************************************)
(* Decoding of the metadata region.  Text is a sequence of code points.    *)
(***************************************************************************)
\* bytes.decode('utf-8'), strict: the number of continuation bytes the
\* lead byte b announces, or -1 for a byte that cannot lead.
Utf8Following(b) ==
    IF b < 128 THEN 0
    ELSE IF b \in 194..223 THEN 1
    ELSE IF b \in 224..239 THEN 2
    ELSE IF b \in 240..244 THEN 3
    ELSE -1

\* The values the first continuation byte may take after lead byte b (no
\* overlong forms, no surrogates, nothing above U+10FFFF).
Utf8SecondRange(b) ==
    (IF b = 224 THEN 160 ELSE IF b = 240 THEN 144 ELSE 128) ..
    (IF b = 237 THEN 159 ELSE IF b = 244 THEN 143 ELSE 191)

\* The code point of the sequence of n + 1 bytes starting at d[i].
Utf8Point(d, i, n) ==
    IF n = 0 THEN d[i]
    ELSE IF n = 1 THEN (d[i] - 192) * 64 + (d[i + 1] - 128)
    ELSE IF n = 2 THEN (d[i] - 224) * 4096 + (d[i + 1] - 128) * 64 + (d[i + 2] - 128)
    ELSE (d[i] - 240) * 262144 + (d[i + 1] - 128) * 4096
         + (d[i + 2] - 128) * 64 + (d[i + 3] - 128)

RECURSIVE Utf8From(_, _, _)
Utf8From(d, i, acc) ==
    IF i > Len(d) THEN [ok |-> TRUE, val |-> acc]
    ELSE LET n == Utf8Following(d[i])
         IN  IF n = -1 \/ i + n > Len(d) THEN [ok |-> FALSE, val |-> <<>>]
             ELSE IF n >= 1 /\ d[i + 1] \notin Utf8SecondRange(d[i])
                  THEN [ok |-> FALSE, val |-> <<>>]
             ELSE IF \E k \in 2..n : d[i + k] \notin 128..191
                  THEN [ok |-> FALSE, val |-> <<>>]
             ELSE Utf8From(d, i + n + 1, Append(acc, Utf8Point(d, i, n)))

Utf8Decode(d) == Utf8From(d, 1, <<>>)

\* The windows-1251 code points of bytes 0x80..0xBF; -1: undefined (0x98).
Cp1251High ==
    << 1026, 1027, 8218, 1107, 8222, 8230, 8224, 8225,
       8364, 8240, 1033, 8249, 1034, 1036, 1035, 1039,
       1106, 8216, 8217, 8220, 8221, 8226, 8211, 8212,
       -1,   8482, 1113, 8250, 1114, 1116, 1115, 1119,
       160,  1038, 1118, 1032, 164,  1168, 166,  167,
       1025, 169,  1028, 171,  172,  173,  174,  1031,
       176,  177,  1030, 1110, 1169, 181,  182,  183,
       1105, 8470, 1108, 187,  1112, 1029, 1109, 1111 >>

\* One byte under windows-1251: 0xC0..0xFF are U+0410..U+044F.
Cp1251Point(b) ==
    IF b < 128 THEN b
    ELSE IF b < 192 THEN Cp1251High[b - 127]
    ELSE 1040 + (b - 192)

\* bytes.decode('windows-1251')
Cp1251Decode(d) ==
    IF \E i \in 1..Len(d) : Cp1251Point(d[i]) = -1
    THEN [ok |-> FALSE, val |-> <<>>]
    ELSE [ok |-> TRUE, val |-> [i \in 1..Len(d) |-> Cp1251Point(d[i])]]

\* bytes.decode('latin-1'): every byte is its own code point.
Latin1Decode(d) == [ok |-> TRUE, val |-> d]

\* bytes.decode(encoding)
Decode(d, enc) ==
    IF enc = "utf-8" THEN Utf8Decode(d)
    ELSE IF enc = "windows-1251" THEN Cp1251Decode(d)
    ELSE Latin1Decode(d)

\* The code points str.strip() removes (those with str.isspace()).
PyWhitespace ==
    (9..13) \cup (28..32) \cup {133, 160, 5760} \cup (8192..8202)
    \cup {8232, 8233, 8239, 8287, 12288}

\* str.strip() on a sequence of code points
StripText(txt) ==
    LET keep == {j \in 1..Len(txt) : txt[j] \notin PyWhitespace}
    IN  IF keep = {} THEN <<>> ELSE SubSeq(txt, Min(keep), Max(keep))

\* JpegParser.ENCODINGS, line 21, and two other orders.
Encodings_Latin1First == <<"latin-1", "utf-8", "windows-1251">>
Encodings_NoLatin1 == <<"utf-8", "windows-1251">>
Encodings == <<"utf-8", "windows-1251", "latin-1">>

\* _decode_data, lines 113-118: the loop from the k-th encoding on.
RECURSIVE DecodeFrom(_, _)
DecodeFrom(d, k) ==
    IF k > Len(Encodings) THEN [raised |-> TRUE, enc |-> "", text |-> <<>>, val |-> <<>>]
    ELSE IF Decode(d, Encodings[k]).ok
         THEN [raised |-> FALSE, enc |-> Encodings[k],
               text |-> Decode(d, Encodings[k]).val,
               val |-> StripText(Decode(d, Encodings[k]).val)]
    ELSE DecodeFrom(d, k + 1)

DecodeData(d) == DecodeFrom(d, 1)

\* Legacy parse, lines 75-78: UTF-8, and windows-1251 in the handler; a
\* UnicodeDecodeError raised there leaves the try block.
LegacyDecode(d) ==
    IF Utf8Decode(d).ok THEN [raised |-> FALSE, val |-> StripText(Utf8Decode(d).val)]
    ELSE IF Cp1251Decode(d).ok
         THEN [raised |-> FALSE, val |-> StripText(Cp1251Decode(d).val)]
    ELSE [raised |-> TRUE, val |-> <<>>]

BytesIdle ==
    /\ data = <<>>
    /\ pos = 0
    /\ frames = <<>>
    /\ ranges = <<>>
    /\ iters = 0
    /\ json_data = <<>>
    /\ legacy_region = <<>>

TextIdle ==
    /\ pieces = <<>>
    /\ decoded = <<>>
    /\ json_str = <<>>
    /\ parsed = <<>>
    /\ attempts = <<>>
    /\ legacy_objects = <<>>
    /\ encoding = ""
    /\ legacy_str = <<>>

RecordIdle ==
    /\ segments = <<>>
    /\ parsed_data = <<>>
    /\ clock = Instant(0, 0)
    /\ violation = None
    /\ result = None
    /\ legacy_record = None
    /\ calls = <<>>

FlowIdle ==
    /\ flow = ""
    /\ violations = <<>>
    /\ cursor = 0
    /\ attempted = {}
    /\ delivered = <<>>
    /\ db_connection = "closed"
    /\ ftp_connection = "none"
    /\ escaped = FALSE
    /\ start_date = 0

(***************************************************************************)
(* SpecFrames: the byte layer.                                             *)
(***************************************************************************)
InitFrames ==
    /\ data \in SeqsUpTo(ByteVals, MaxLen)
    /\ pc = "scan"
    /\ pos = 0
    /\ frames = <<>>
    /\ ranges = <<>>
    /\ iters = 0
    /\ json_data = <<>>
    /\ legacy_region = <<>>
    /\ TextIdle
    /\ RecordIdle
    /\ FlowIdle

\* One evaluation of the loop condition and, when it holds, one iteration
\* of the body of `while pos < len(data)`.
ScanStep ==
    /\ pc = "scan"
    /\ LET start_pos == StartOfFrame(data, pos)
           end_pos   == EndOfFrame(data, start_pos)
       IN  IF pos >= Len(data) \/ start_pos = -1 \/ end_pos = -1
           THEN /\ pc' = "locate"
                /\ iters' = IF pos >= Len(data) THEN iters ELSE iters + 1
                /\ UNCHANGED <<pos, frames, ranges>>
           ELSE /\ frames' = Append(frames, B64Encode(FrameBytes(data, start_pos, end_pos)))
                /\ ranges' = Append(ranges, <<start_pos, end_pos>>)
                /\ pos' = end_pos + 2
                /\ iters' = iters + 1
                /\ pc' = "scan"
    /\ UNCHANGED <<data, json_data, legacy_region>>
    /\ UNCHANGED <<text_vars, record_vars, flow_vars>>

\* json_data = self._extract_json(jpeg_data), and the legacy variant's
\* inline location of the same region.
LocateJson ==
    /\ pc = "locate"
    /\ json_data' = ExtractJson(data)
    /\ legacy_region' = LegacyRegion(data)
    /\ pc' = "done"
    /\ UNCHANGED <<data, pos, frames, ranges, iters>>
    /\ UNCHANGED <<text_vars, record_vars, flow_vars>>

NextFrames == ScanStep \/ LocateJson

SpecFrames == InitFrames /\ [][NextFrames]_vars


(***************************************************************************)
(* Reading a base64 text back: the inverse the downstream consumer applies *)
(* (base64.b64decode).  Used to state what a frame's text stands for.      *)
(***************************************************************************)
B64Index(c) == CHOOSE n \in 0..63 : B64Alphabet[n + 1] = c

B64Quad(q) ==
    LET n1 == B64Index(q[1])
        n2 == B64Index(q[2])
        n3 == IF q[3] = "=" THEN 0 ELSE B64Index(q[3])
        n4 == IF q[4] = "=" THEN 0 ELSE B64Index(q[4])
        b1 == n1 * 4 + (n2 \div 16)
        b2 == (n2 % 16) * 16 + (n3 \div 4)
        b3 == (n3 % 4) * 64 + n4
    IN  IF q[3] = "=" THEN <<b1>>
        ELSE IF q[4] = "=" THEN <<b1, b2>>
        ELSE <<b1, b2, b3>>

RECURSIVE B64Decode(_)
B64Decode(cs) ==
    IF Len(cs) < 4 THEN <<>>
    ELSE B64Quad(SubSeq(cs, 1, 4)) \o B64Decode(SubSeq(cs, 5, Len(cs)))

(***************************************************************************)
(* Claims about the byte layer.                                            *)
(***************************************************************************)
\* The cursor the i-th iteration started from: 0, then end + 2 of the
\* frame before.
CursorBefore(i) == IF i = 1 THEN 0 ELSE ranges[i - 1][2] + 2

\* The i-th emitted frame pairs the first start marker at or after the
\* cursor with the nearest end marker at or after it, and its text stands
\* for exactly the bytes [start, end + 2).
FramePaired(i) ==
    LET s == ranges[i][1]
        e == ranges[i][2]
        c == CursorBefore(i)
        bytes == B64Decode(frames[i])
    IN  /\ c <= s /\ s < e
        /\ MarkerAt(data, SOI, s)
        /\ MarkerAt(data, EOI, e)
        /\ \A p \in c..(s - 1) : ~MarkerAt(data, SOI, p)
        /\ \A p \in s..(e - 1) : ~MarkerAt(data, EOI, p)
        /\ bytes = Slice(data, s, e + 2)
        /\ Len(bytes) >= 4
        /\ SubSeq(bytes, 1, 2) = SOI
        /\ SubSeq(bytes, Len(bytes) - 1, Len(bytes)) = EOI

\* After the last frame nothing is left to pair: no start marker at or
\* after the cursor, or no end marker at or after the first such start.
ScanExhausted ==
    LET c == CursorBefore(Len(ranges) + 1)
    IN  \A s \in c..(Len(data) - 2) :
            MarkerAt(data, SOI, s) /\ (\A q \in c..(s - 1) : ~MarkerAt(data, SOI, q))
                => \A e \in s..(Len(data) - 2) : ~MarkerAt(data, EOI, e)

\* C1: extractFrames returns exactly the frames of the left-to-right
\* pairing of each start marker FFD8 at or after the cursor with the
\* nearest end marker FFD9 at or after it: in ascending offset order, each
\* beginning with FFD8 and ending with FFD9, pairwise non-overlapping, no
\* end marker shared by two frames, and none missing once the scan is over.
C1_FramesAreLeftToRightPairing ==
    /\ Len(frames) = Len(ranges)
    /\ \A i \in 1..Len(frames) : FramePaired(i)
    /\ \A i \in 1..Len(frames) : \A j \in 1..Len(frames) :
            i < j => ranges[i][2] + 2 <= ranges[j][1]
    /\ pc # "scan" => ScanExhausted

\* Two frames have been emitted from a buffer and the scan is over.
C1_Witness ==
    /\ pc = "done"
    /\ Len(frames) = 2
    /\ ranges[2][1] = ranges[1][2] + 2

\* C2: extractMetadataRegion returns the bytes from 2 past the start of the
\* LAST occurrence of FFD9 to the end of the buffer, and the empty range
\* when FFD9 does not occur; frames play no part in it.
C2_MetadataAfterLastEndMarker ==
    pc = "done" =>
        IF \E p \in 0..(Len(data) - 2) : MarkerAt(data, EOI, p)
        THEN \E p \in 0..(Len(data) - 2) :
                /\ MarkerAt(data, EOI, p)
                /\ \A q \in (p + 1)..(Len(data) - 2) : ~MarkerAt(data, EOI, q)
                /\ Len(json_data) = Len(data) - (p + 2)
                /\ \A k \in 1..Len(json_data) : json_data[k] = data[p + 2 + k]
        ELSE json_data = <<>>

\* The last end marker belongs to no frame (it precedes every start
\* marker's pairing), yet a non-empty region after it is returned; and an
\* earlier end marker exists too.
C2_Witness ==
    /\ pc = "done"
    /\ json_data # <<>>
    /\ Len(frames) = 1
    /\ \E p \in 0..(Len(data) - 2) :
            /\ MarkerAt(data, EOI, p)
            /\ p > ranges[1][2]
            /\ Len(json_data) = Len(data) - (p + 2)


(***************************************************************************)
(* SpecSplit: the text layer.  The input text is a concatenation of up to  *)
(* MaxPieces pieces; a piece is the compact text of a JSON object, or a    *)
(* fragment that is none.                                                  *)
(***************************************************************************)
RECURSIVE Serialize(_), SerializeItems(_, _)

\* The compact JSON text of a value (no whitespace between tokens).
Serialize(x) ==
    IF x.t = "num" THEN IF x.v = 1 THEN <<"1">> ELSE <<"2">>
    ELSE IF x.t = "str" THEN <<Quote>> \o x.v \o <<Quote>>
    ELSE IF x.t = "arr" THEN <<"[">> \o SerializeItems(x, 1) \o <<"]">>
    ELSE <<"{">> \o SerializeItems(x, 1) \o <<"}">>

SerializeItems(x, i) ==
    IF i > Len(x.v) THEN <<>>
    ELSE (IF i > 1 THEN <<",">> ELSE <<>>)
         \o (IF x.t = "obj"
             THEN <<Quote>> \o x.v[i][1] \o <<Quote, ":">> \o Serialize(x.v[i][2])
             ELSE Serialize(x.v[i]))
         \o SerializeItems(x, i + 1)

ka == <<"a">>
kb == <<"b">>

\* Well-formed JSON objects.
ObjectPool ==
    { Obj(<<>>),
      Obj(<< <<ka, Num(1)>> >>),
      Obj(<< <<kb, Num(2)>> >>),
      Obj(<< <<ka, Arr(<<Num(1), Num(2)>>)>>, <<kb, Str(<<"a">>)>> >>),
      Obj(<< <<ka, Obj(<< <<kb, Num(1)>> >>)>> >>),
      Obj(<< <<ka, Str(<<"}">>)>> >>),
      Obj(<< <<ka, Str(<<"{">>)>> >>),
      Obj(<< <<ka, Str(<<"{", "}">>)>> >>),
      Obj(<< <<ka, Str(<<"}", "{">>)>> >>) }

\* Texts that are not one JSON object: scalars, arrays, broken objects,
\* stray characters, whitespace.
FragmentPool ==
    { <<"1">>,
      <<"[", "{", "}", ",", "1", "]">>,
      <<"[", "{", Quote, "a", Quote, ":", "1", "}", "]">>,
      <<"{", "a", "}">>,
      <<"{", Quote, "a", Quote, ":">>,
      <<"}">>,
      <<" ">> }

PiecePool ==
    {[object |-> TRUE, txt |-> Serialize(o), val |-> o] : o \in ObjectPool}
    \cup {[object |-> FALSE, txt |-> f, val |-> None] : f \in FragmentPool}

RECURSIVE Concat(_)
Concat(ps) == IF ps = <<>> THEN <<>> ELSE ps[1].txt \o Concat(Tail(ps))

InitSplit ==
    /\ pieces \in SeqsUpTo(PiecePool, MaxPieces)
    /\ decoded = Concat(pieces)
    /\ json_str = <<>>
    /\ parsed = <<>>
    /\ attempts = <<>>
    /\ legacy_objects = <<>>
    /\ encoding = ""
    /\ legacy_str = <<>>
    /\ pc = "decoded"
    /\ BytesIdle
    /\ RecordIdle
    /\ FlowIdle

\* Convertor _parse_json (lines 104-109) on the decoded text.
ParseJson ==
    /\ pc = "decoded"
    /\ json_str' = Strip(decoded)
    /\ parsed' = ParseJsonText(Strip(decoded))
    /\ attempts' = IF JsonLoads(Strip(decoded)).ok THEN <<>>
                   ELSE ParseFragmented(Strip(decoded)).attempts
    /\ pc' = "parsed"
    /\ UNCHANGED <<pieces, decoded, legacy_objects, encoding, legacy_str>>
    /\ UNCHANGED <<byte_vars, record_vars, flow_vars>>

\* Legacy parse (lines 80-98) on the same text.
LegacySplit ==
    /\ pc = "parsed"
    /\ legacy_objects' = LegacySplitObjects(Strip(decoded))
    /\ pc' = "split"
    /\ UNCHANGED <<pieces, decoded, json_str, parsed, attempts, encoding, legacy_str>>
    /\ UNCHANGED <<byte_vars, record_vars, flow_vars>>

NextSplit == ParseJson \/ LegacySplit

SpecSplit == InitSplit /\ [][NextSplit]_vars

(***************************************************************************)
(* Claims about the text layer.                                            *)
(***************************************************************************)
\* The text is k well-formed JSON objects directly concatenated.
AllObjects == \A i \in 1..Len(pieces) : pieces[i].object

\* The objects the text was made of, in order.
Originals == [i \in 1..Len(pieces) |-> pieces[i].val]

Count(txt, c) == Cardinality({j \in 1..Len(txt) : txt[j] = c})

\* As many "{" as "}" characters, those inside string values included.
BraceBalanced(txt) == Count(txt, "{") = Count(txt, "}")

\* Some string value (or key) of x holds a brace character.
RECURSIVE HasBraceInString(_)
HasBraceInString(x) ==
    IF x.t = "str" THEN \E j \in 1..Len(x.v) : x.v[j] \in {"{", "}"}
    ELSE IF x.t = "arr" THEN \E i \in 1..Len(x.v) : HasBraceInString(x.v[i])
    ELSE IF x.t = "obj" THEN
        \E i \in 1..Len(x.v) :
            \/ \E j \in 1..Len(x.v[i][1]) : x.v[i][1][j] \in {"{", "}"}
            \/ HasBraceInString(x.v[i][2])
    ELSE FALSE

\* C5 (as stated): splitObjects on k well-formed objects directly
\* concatenated returns exactly those k objects in order, also when string
\* values hold "{" or "}" characters.
C5_Original_AnyStrings ==
    (pc # "decoded" /\ AllObjects) => parsed = Originals

\* C5 (amended): the same, provided that in each object the "{" and "}"
\* characters, those inside string values included, are equal in number.
C5_ConcatenatedBalancedObjectsRecovered ==
    (pc # "decoded" /\ AllObjects
        /\ \A i \in 1..Len(pieces) : BraceBalanced(pieces[i].txt))
    => parsed = Originals

\* Three concatenated objects, one of them with braces inside a string
\* value, have been recovered by the brace-depth scan.
C5_Witness ==
    /\ pc = "parsed"
    /\ Len(pieces) = 3
    /\ AllObjects
    /\ \A i \in 1..3 : BraceBalanced(pieces[i].txt)
    /\ \E i \in 1..3 : HasBraceInString(pieces[i].val)
    /\ Len(attempts) >= 3
    /\ parsed = Originals

\* C6 (as stated): the substring-split repair recovers every object of a
\* stream of k directly concatenated well-formed objects, in order,
\* including objects whose last member is itself a nested object.
C6_Original_SplitRepairRecoversAll ==
    (pc = "split" /\ Len(pieces) >= 1 /\ AllObjects
        /\ \A i \in 1..Len(pieces) : ~HasBraceInString(pieces[i].val))
    => legacy_objects = Originals

\* C7 (as stated): after a buffer fails to parse at depth zero, the next
\* parse attempt holds only characters that come after the failed fragment.
C7_Original_FailedFragmentDiscarded ==
    \A k \in 1..(Len(attempts) - 1) :
        ~attempts[k].ok => attempts[k + 1].first > attempts[k].last

\* C8 (as stated): every element of the sequence splitObjects returns is a
\* JSON object.
C8_Original_OnlyObjectsReturned ==
    pc # "decoded" => \A i \in 1..Len(parsed) : IsDict(parsed[i])


(***************************************************************************)
(* SpecRecord: the record layer.  The inputs are what the earlier stages   *)
(* hand over: the extracted frames and the list of parsed values.          *)
(***************************************************************************)
\* The n-th frame of the input: FFD8, one payload byte, FFD9.
FrameNo(n) == <<255, 216, n, 255, 217>>
FirstFrames(n) == [i \in 1..n |-> FrameNo(i)]

\* The base64 texts _extract_frames returns for these frames.
FrameTexts(segs) == [i \in 1..Len(segs) |-> B64Encode(segs[i])]

\* The scenario of the specification: epoch 1700000000, 500 ms, timezone 3.
ScenarioInfo ==
    Obj(<< <<"UTC", Num(1700000000)>>, <<"ms", Num(500)>>, <<"timezone", Num(3)>> >>)
ScenarioPlate ==
    Obj(<< <<"plate_chars", Str(<<"A", "B", "|", "1", "2", "3", "C", "D">>)>>,
           <<"plate_code", Str(<<"R", "U">>)>> >>)
Scenario ==
    Obj(<< <<"violation_info", ScenarioInfo>>, <<"recogniser_info", ScenarioPlate>> >>)

\* An object with all four sections present and well formed.
FullInfo ==
    Obj(<< <<"UTC", Num(86400)>>, <<"ms", Num(1500)>>, <<"timezone", Num(10)>>,
           <<"direction", Num(0)>>, <<"speed", Num(77)>>, <<"crime_reason", Num(1)>> >>)
FullPlace ==
    Obj(<< <<"latitude", Str(<<"N", "5", "1", ".", "8", "7", "0", "2", "0", "9">>)>>,
           <<"longitude", Str(<<"E", "1", ".", "5">>)>>,
           <<"place", Str(<<"M">>)>>,
           <<"place_incoming", Str(<<"i", "n">>)>>,
           <<"place_outcoming", Str(<<"o", "u", "t">>)>>,
           <<"speed_limit", Num(60)>> >>)
FullPlate ==
    Obj(<< <<"plate_chars", Str(<<"A", "|", "B">>)>>, <<"plate_code", Str(<<"R", "U">>)>>,
           <<"mark", Str(<<"V">>)>>, <<"model", Str(<<"X">>)>> >>)
FullDevice ==
    Obj(<< <<"name_speed_meter", Str(<<"c", "a", "m">>)>>,
           <<"factory_number", Str(<<"S", "N">>)>> >>)
Full ==
    Obj(<< <<"violation_info", FullInfo>>, <<"installation_place_info", FullPlace>>,
           <<"recogniser_info", FullPlate>>, <<"device_info", FullDevice>> >>)

NotAMapping == Str(<<"x">>)

\* Full with one section replaced.
InfoVariants ==
    { NotAMapping,
      Obj(<< <<"UTC", Num(0)>> >>),
      Obj(<< <<"UTC", Str(<<"a", "b", "c">>)>> >>),
      Obj(<< <<"UTC", Num(1700000000)>>, <<"ms", Str(<<"x">>)>> >>),
      Obj(<< <<"UTC", Num(1700000000)>>, <<"timezone", Num(-3)>> >>),
      Obj(<< <<"UTC", Str(<<"8", "6", "4", "0", "0">>)>>, <<"timezone", Num(20)>> >>) }
PlaceVariants ==
    { NotAMapping,
      Obj(<< <<"latitude", Str(<<"N">>)>>, <<"longitude", Str(<<"1", ".", "2", ".", "3">>)>> >>),
      Obj(<< <<"latitude", None>>, <<"longitude", Num(-7)>> >>) }
PlateVariants ==
    { NotAMapping,
      Obj(<< <<"plate_chars", Num(5)>> >>),
      Obj(<< <<"model", Str(<<"X">>)>> >>),
      EmptyDict }
DeviceVariants == { Num(1) }

RecordPool ==
    { Scenario, Full, EmptyDict, Num(1) }
    \cup {Put(Full, "violation_info", x) : x \in InfoVariants}
    \cup {Put(Full, "installation_place_info", x) : x \in PlaceVariants}
    \cup {Put(Full, "recogniser_info", x) : x \in PlateVariants}
    \cup {Put(Full, "device_info", x) : x \in DeviceVariants}

\* datetime.now() during the call: 2027-01-15T08:00:00.123
Now == Instant(1800000000, 123)

InitRecord ==
    /\ segments \in {FirstFrames(n) : n \in 0..MaxFrames}
    /\ parsed_data \in SeqsUpTo(RecordPool, MaxObjects)
    /\ clock = Now
    /\ violation = None
    /\ result = None
    /\ legacy_record = None
    /\ calls = <<>>
    /\ pc = "inputs"
    /\ BytesIdle
    /\ TextIdle
    /\ FlowIdle

\* Convertor parse, lines 60-61: _build_violation, then
\* _ensure_serializable on what it returned.
BuildRecord ==
    /\ pc = "inputs"
    /\ violation' = BuildViolation(FrameTexts(segments), parsed_data, clock)
    /\ result' = ParseReturn(FrameTexts(segments), parsed_data, clock)
    /\ pc' = "built"
    /\ UNCHANGED <<segments, parsed_data, clock, legacy_record, calls>>
    /\ UNCHANGED <<byte_vars, text_vars, flow_vars>>

\* Legacy _parse_json on the same objects and segments.
LegacyRecord ==
    /\ pc = "built"
    /\ legacy_record' = LegacyBuild(parsed_data, segments, clock)
    /\ pc' = "done"
    /\ UNCHANGED <<segments, parsed_data, clock, violation, result, calls>>
    /\ UNCHANGED <<byte_vars, text_vars, flow_vars>>

NextRecord == BuildRecord \/ LegacyRecord

SpecRecord == InitRecord /\ [][NextRecord]_vars

(***************************************************************************)
(* Claims about the record layer.                                          *)
(***************************************************************************)
\* C3 (as stated): with no frame or no recovered object, buildRecord fails
\* and parse returns a failure, not a (possibly empty) record.
C3_Original_InsufficientDataFails ==
    (pc # "inputs" /\ (segments = <<>> \/ parsed_data = <<>>)) => ~IsDict(result)

\* The object the claims call authoritative.
LastObject == parsed_data[Len(parsed_data)]

\* C4 (as stated): for every sequence of one or more objects the record is
\* derived from the last one, in both parser variants: it is the record
\* the builder gives when the last object is the only one it can choose.
C4_Original_RecordFromLastObject ==
    (pc = "done" /\ Len(parsed_data) >= 1) =>
        /\ violation = BuildViolation(FrameTexts(segments), <<LastObject>>, clock)
        /\ legacy_record = LegacyBuild(<<LastObject, LastObject>>, segments, clock)

\* C9 (as stated): an error inside one field derivation costs that field
\* only: with a frame and an authoritative object at hand, the primary
\* photo and the timestamp are populated in the record parse returns.
C9_Original_FieldErrorsStayLocal ==
    (pc # "inputs" /\ segments # <<>> /\ parsed_data # <<>> /\ IsDict(LastObject)) =>
        /\ IsDict(result)
        /\ HasKey(result, "v_photo_ts")
        /\ HasKey(result, "v_time_check")

\* C10 (as stated): v_time_check is the instant UTC seconds + ms
\* milliseconds shifted by the timezone code taken as whole hours.
C10_Original_TimezoneCodeIsHours ==
    LET info == IF parsed_data # <<>> /\ IsDict(LastObject)
                THEN Get(LastObject, "violation_info", None) ELSE None
        utc  == Get(info, "UTC", None)
        ms   == Get(info, "ms", Num(0))
        tz   == Get(info, "timezone", Num(0))
    IN  (/\ pc # "inputs"
         /\ IsDict(result) /\ HasKey(result, "v_time_check")
         /\ IsDict(info)
         /\ IsNum(utc) /\ Truthy(utc) /\ IsNum(ms) /\ IsNum(tz))
        => Item(result, "v_time_check") =
               Str(IsoMillis(AddDelta(Instant(utc.v, 0), ms.v, tz.v)))


\* ViolationData (convertor models.py, lines 7-26): the fields of the
\* output schema.
SchemaFields ==
    { "v_azimut", "v_camera", "v_camera_serial", "v_camera_place", "v_direction",
      "v_direction_name", "v_gps_x", "v_gps_y", "v_regno", "v_regno_country_id",
      "v_speed", "v_speed_limit", "v_time_check", "v_car_type", "v_ts_model",
      "v_patrol_speed", "v_pr_viol", "violation", "v_photo_ts", "v_photo_extra" }

\* C11 (as stated): with at least one frame and the single object {} the
\* builder returns a record holding every field of the output schema.
C11_Original_EmptyObjectGivesDefaults ==
    (pc # "inputs" /\ segments # <<>> /\ parsed_data = <<EmptyDict>>) =>
        /\ IsDict(result)
        /\ \A f \in SchemaFields : HasKey(result, f)

\* The frames after the first, as a list of base64 texts.
RestOfFrames(segs) == Arr([i \in 1..(Len(segs) - 1) |-> Str(B64Encode(segs[i + 1]))])

\* The frames a legacy photo_extra list names.
LegacyExtraFrames(extra) ==
    Arr([i \in 1..Len(extra.v) |-> Get(extra.v[i], "vphotoExtra", None)])

\* C12 (as stated): in every record the primary photo is the first frame
\* and the auxiliary list is exactly the remaining frames, present and
\* empty when there is one frame, which does not keep the record from
\* being built.
C12_Original_PhotosAreFirstAndRest ==
    (pc = "done" /\ segments # <<>>) =>
        /\ (IsDict(result) /\ result # EmptyDict) =>
              /\ Get(result, "v_photo_ts", None) = Str(B64Encode(segments[1]))
              /\ Get(result, "v_photo_extra", None) = RestOfFrames(segments)
        /\ IsDict(legacy_record) =>
              /\ Item(legacy_record, "v_photo_ts") = Str(B64Encode(segments[1]))
              /\ LegacyExtraFrames(Item(legacy_record, "photo_extra")) = RestOfFrames(segments)
        /\ (Len(segments) = 1 /\ IsDict(LegacyBuild(parsed_data, <<>>, clock))) =>
              IsDict(legacy_record)


(***************************************************************************)
(* SpecDecode: both decoders on one metadata region.                       *)
(***************************************************************************)
\* space, 'A', a UTF-8 continuation byte, the byte windows-1251 leaves
\* undefined, the no-break space of the single-byte encodings, a UTF-8
\* lead byte, and a byte UTF-8 never accepts.
DecodeBytes == {32, 65, 144, 152, 160, 208, 192}

InitDecode ==
    /\ json_data \in SeqsUpTo(DecodeBytes, MaxRegion)
    /\ data = <<>>
    /\ pos = 0
    /\ frames = <<>>
    /\ ranges = <<>>
    /\ iters = 0
    /\ legacy_region = <<>>
    /\ TextIdle
    /\ RecordIdle
    /\ FlowIdle
    /\ pc = "region"

\* Convertor _decode_data on the region.
DecodeRegion ==
    /\ pc = "region"
    /\ LET r == DecodeData(json_data)
       IN  /\ decoded' = r.text
           /\ encoding' = r.enc
           /\ json_str' = IF r.raised THEN Raised ELSE r.val
    /\ pc' = "decoded"
    /\ UNCHANGED <<pieces, parsed, attempts, legacy_objects, legacy_str>>
    /\ UNCHANGED <<byte_vars, record_vars, flow_vars>>

\* Legacy parse, lines 75-78, on the same region.
LegacyDecodeRegion ==
    /\ pc = "decoded"
    /\ LET r == LegacyDecode(json_data)
       IN  legacy_str' = IF r.raised THEN Raised ELSE r.val
    /\ pc' = "done"
    /\ UNCHANGED <<pieces, decoded, json_str, parsed, attempts, legacy_objects, encoding>>
    /\ UNCHANGED <<byte_vars, record_vars, flow_vars>>

NextDecode == DecodeRegion \/ LegacyDecodeRegion

SpecDecode == InitDecode /\ [][NextDecode]_vars

\* C13: _decode_data returns the stripped decode of the first of UTF-8,
\* windows-1251, latin-1 that accepts the region; a later encoding is
\* used only when every earlier one rejects it.
C13_FirstSuccessfulEncodingWins ==
    pc # "region" =>
        LET utf == Utf8Decode(json_data)
            cyr == Cp1251Decode(json_data)
        IN  /\ utf.ok => (encoding = "utf-8" /\ json_str = StripText(utf.val))
            /\ (~utf.ok /\ cyr.ok) =>
                   (encoding = "windows-1251" /\ json_str = StripText(cyr.val))
            /\ (~utf.ok /\ ~cyr.ok) =>
                   (encoding = "latin-1" /\ json_str = StripText(json_data))

\* UTF-8 rejected the region, windows-1251 gave a text that latin-1 would
\* not have given, and strip removed something.
C13_Witness ==
    /\ pc # "region"
    /\ encoding = "windows-1251"
    /\ json_str # decoded
    /\ json_str # StripText(json_data)

\* C14 (as stated): for every region, in both parsers, decoding falls
\* back and returns text rather than failing the parse.
C14_Original_BothDecodersAlwaysSucceed ==
    pc = "done" => (json_str # Raised /\ legacy_str # Raised)

\* C14 (amended): the convertor decoder returns text for every region;
\* the legacy decoder returns text exactly when UTF-8 or windows-1251
\* accepts the region, and fails the parse otherwise.
C14_ConvertorAlwaysDecodes ==
    pc = "done" =>
        /\ json_str # Raised
        /\ encoding \in {"utf-8", "windows-1251", "latin-1"}
        /\ legacy_str = Raised <=>
               (~Utf8Decode(json_data).ok /\ ~Cp1251Decode(json_data).ok)

\* A region neither UTF-8 nor windows-1251 accepts: the convertor falls
\* back to latin-1, the legacy parse fails.
C14_Witness ==
    /\ pc = "done"
    /\ encoding = "latin-1"
    /\ json_str # Raised
    /\ legacy_str = Raised


(***************************************************************************)
(* SpecParse: the front of parse on a whole buffer: validation, then the   *)
(* frame scan and the metadata location (convertor), and the legacy parse  *)
(* of the same buffer, which has no validation step.                       *)
(***************************************************************************)
\* Buffers are put together from markers and filler.
ChunkPool == { SOI, EOI, <<0>>, <<0, 0, 0, 0>> }

RECURSIVE Flatten(_)
Flatten(cs) == IF cs = <<>> THEN <<>> ELSE Head(cs) \o Flatten(Tail(cs))

InitParse ==
    /\ data \in {Flatten(cs) : cs \in SeqsUpTo(ChunkPool, MaxChunks)}
    /\ pc = "validate"
    /\ pos = 0
    /\ frames = <<>>
    /\ ranges = <<>>
    /\ iters = 0
    /\ json_data = <<>>
    /\ legacy_region = <<>>
    /\ TextIdle
    /\ RecordIdle
    /\ FlowIdle

\* Convertor parse, line 55: _validate_input; a ParserError is caught at
\* line 63 and parse returns None.
ValidateInput ==
    /\ pc = "validate"
    /\ IF InvalidInput(data)
       THEN /\ pc' = "rejected"
            /\ result' = None
       ELSE /\ pc' = "scan"
            /\ UNCHANGED result
    /\ UNCHANGED <<segments, parsed_data, clock, violation, legacy_record, calls>>
    /\ UNCHANGED <<byte_vars, text_vars, flow_vars>>

\* Legacy parse, lines 62-72, on the same buffer: the segment scan, then
\* the location of the region.
LegacyScan ==
    /\ pc \in {"rejected", "done"}
    /\ segments' = LegacySegments(data)
    /\ legacy_region' = LegacyRegion(data)
    /\ pc' = "end"
    /\ UNCHANGED <<data, pos, frames, ranges, iters, json_data>>
    /\ UNCHANGED <<parsed_data, clock, violation, result, legacy_record, calls>>
    /\ UNCHANGED <<text_vars, flow_vars>>

NextParse == ValidateInput \/ ScanStep \/ LocateJson \/ LegacyScan

SpecParse == InitParse /\ [][NextParse]_vars

\* The buffers the claim calls malformed.
TooShortOrNoStart == Len(data) < 10 \/ SubSeq(data, 1, 2) # SOI

\* C15 (as stated): on a buffer shorter than 10 bytes or not beginning
\* with FFD8 parse fails before any frame scanning or metadata location,
\* in both parsers.
C15_Original_BothParsersFailFast ==
    (pc = "end" /\ TooShortOrNoStart) =>
        /\ iters = 0 /\ frames = <<>> /\ json_data = <<>> /\ result = None
        /\ segments = <<>> /\ legacy_region = Raised

\* C15 (amended): the convertor parse rejects exactly these buffers, and
\* rejects them before the frame scan and the metadata location; the
\* legacy parse scans and locates whatever the length and the first bytes,
\* and fails only when the buffer holds no end marker.
C15_ConvertorFailsFast ==
    /\ TooShortOrNoStart =>
          /\ pc \in {"validate", "rejected", "end"}
          /\ iters = 0 /\ frames = <<>> /\ json_data = <<>> /\ result = None
    /\ ~TooShortOrNoStart => pc # "rejected"
    /\ pc = "end" =>
          /\ legacy_region = Raised <=> Find(data, EOI, 0) = -1
          /\ (segments = <<>>) <=>
                 ~\E p \in 0..Len(data) : \E e \in p..Len(data) :
                      MarkerAt(data, SOI, p) /\ MarkerAt(data, EOI, e)

\* A buffer of ten bytes or more with a frame in it that does not begin
\* with FFD8: the convertor rejected it unscanned, the legacy parse
\* extracted the segment and located the region.
C15_Witness ==
    /\ pc = "end"
    /\ Len(data) >= 10
    /\ SubSeq(data, 1, 2) # SOI
    /\ iters = 0 /\ frames = <<>>
    /\ segments # <<>>
    /\ legacy_region # Raised


(***************************************************************************)
(* More claims about the frame scan (SpecFrames).                          *)
(***************************************************************************)
\* C16: the scan always ends, within a number of iterations the buffer
\* length bounds; a start marker with no end marker after it starts no
\* frame; a buffer without an end marker, or without a start marker
\* followed by an end marker, yields no frame; and the legacy scan finds
\* the same segments.
C16_ScanNeverFails ==
    /\ iters <= (Len(data) \div 4) + 1
    /\ pc # "scan" =>
          /\ Find(data, EOI, 0) = -1 => frames = <<>>
          /\ (~\E p \in 0..Len(data) : \E e \in p..Len(data) :
                   MarkerAt(data, SOI, p) /\ MarkerAt(data, EOI, e)) => frames = <<>>
          /\ \A p \in 0..Len(data) :
                 (MarkerAt(data, SOI, p) /\ Find(data, EOI, p) = -1) =>
                     \A i \in 1..Len(ranges) : ranges[i][1] # p
          /\ \A i \in 1..Len(ranges) : MarkerAt(data, EOI, ranges[i][2])
          /\ frames = [i \in 1..Len(LegacySegments(data)) |->
                           B64Encode(LegacySegments(data)[i])]

\* The scan emitted a frame and then met a start marker that no end
\* marker follows.
C16_Witness ==
    /\ pc # "scan"
    /\ Len(frames) = 1
    /\ \E p \in 0..Len(data) : MarkerAt(data, SOI, p) /\ Find(data, EOI, p) = -1


(***************************************************************************)
(* SpecInstance: one legacy JpegParser instance (self.segments and         *)
(* self.parsed_objects are `segments` and `parsed_data`) used by several   *)
(* invocations of the two-step sequence of main.py: parse(file_data),      *)
(* then _parse_json() when parse returned something.  The convertor parse  *)
(* of the same file is recorded next to the legacy one.                    *)
(***************************************************************************)
\* A file: the bytes up to the start of the metadata region, whether
\* decoding the region raises in the legacy parse, and the objects the
\* legacy lines 80-96 and the convertor _parse_json recover from it.
File(head, raises, objects, conv_objects) ==
    [head |-> head, raises |-> raises, objects |-> objects, conv_objects |-> conv_objects]

OtherDevice == Obj(<< <<"name_speed_meter", Str(<<"B">>)>> >>)

FilePool ==
    { File(FrameNo(1) \o FrameNo(2) \o FrameNo(3), FALSE,
           <<Scenario, Full>>, <<Scenario, Full>>),
      File(FrameNo(4) \o FrameNo(5) \o FrameNo(6), FALSE,
           <<Full, Put(Full, "device_info", OtherDevice)>>,
           <<Full, Put(Full, "device_info", OtherDevice)>>),
      File(FrameNo(7) \o FrameNo(8) \o FrameNo(9), TRUE, <<>>, <<>>),
      File(<<255, 216, 0, 0, 0, 0, 0, 0, 0, 0>>, FALSE, <<>>, <<>>),
      File(FrameNo(1) \o FrameNo(1), FALSE, <<>>, <<>>) }

\* Legacy parse: whether lines 68-78 raise (no end marker, or a region
\* neither encoding decodes).
LegacyParseFails(f) == RFind(f.head, EOI) = -1 \/ f.raises

\* self.parsed_objects after parse(f): line 89 replaces the list and the
\* loop fills it; an exception before line 89 leaves the old list.
ParsedObjectsAfter_Accumulate(prev, f) ==
    IF LegacyParseFails(f) THEN prev ELSE prev \o f.objects

ParsedObjectsAfter(prev, f) ==
    IF LegacyParseFails(f) THEN prev ELSE f.objects

\* What the legacy parse returns (lines 98, 100-102).
LegacyParseReturn(prev, f) ==
    IF LegacyParseFails(f) THEN None
    ELSE IF ParsedObjectsAfter(prev, f) = <<>> THEN None
    ELSE Arr(ParsedObjectsAfter(prev, f))

\* What the convertor parse returns (lines 54-68).
ConvertorParse(f, now) ==
    IF InvalidInput(f.head) THEN None
    ELSE ParseReturn(FrameTexts(LegacySegments(f.head)), f.conv_objects, now)

NewCall(f) == [input |-> f, at |-> "start", when |-> 0,
               returned |-> None, conv |-> None, record |-> None]

InitInstance ==
    /\ calls \in [1..MaxCalls -> {NewCall(f) : f \in FilePool}]
    /\ segments = <<>>
    /\ parsed_data = <<>>
    /\ clock = Now
    /\ violation = None
    /\ result = None
    /\ legacy_record = None
    /\ pc = "calls"
    /\ BytesIdle
    /\ TextIdle
    /\ FlowIdle

\* The number of parse calls made so far.
ParsesMade == Cardinality({i \in 1..Len(calls) : calls[i].at # "start"})

\* Invocation i calls parse(file_data): _extract_jpeg_segments stores
\* self.segments before the try block is entered.
Parse(i) ==
    /\ calls[i].at = "start"
    /\ LET f == calls[i].input
       IN  /\ segments' = LegacySegments(f.head)
           /\ parsed_data' = ParsedObjectsAfter(parsed_data, f)
           /\ calls' = [calls EXCEPT ![i] =
                           [@ EXCEPT !.at = "parsed",
                                     !.when = ParsesMade + 1,
                                     !.returned = LegacyParseReturn(parsed_data, f),
                                     !.conv = ConvertorParse(f, clock)]]
    /\ UNCHANGED <<pc, clock, violation, result, legacy_record>>
    /\ UNCHANGED <<byte_vars, text_vars, flow_vars>>

\* Invocation i, whose parse returned a non-empty list, calls
\* _parse_json(), which reads self.parsed_objects and self.segments.
BuildFromInstance(i) ==
    /\ calls[i].at = "parsed"
    /\ calls[i].returned # None
    /\ calls' = [calls EXCEPT ![i] =
                    [@ EXCEPT !.at = "built",
                              !.record = LegacyBuild(parsed_data, segments, clock)]]
    /\ UNCHANGED <<pc, segments, parsed_data, clock, violation, result, legacy_record>>
    /\ UNCHANGED <<byte_vars, text_vars, flow_vars>>

NextInstance == \E i \in 1..MaxCalls : Parse(i) \/ BuildFromInstance(i)

SpecInstance == InitInstance /\ [][NextInstance]_vars

\* C17 (as stated): whatever the interleaving of the invocations on one
\* parser instance, the record an invocation gets is built from the
\* objects and the segments of its own input.
C17_Original_RecordFromOwnInput ==
    \A i \in 1..Len(calls) :
        calls[i].at = "built" =>
            calls[i].record = LegacyBuild(calls[i].input.objects,
                                          LegacySegments(calls[i].input.head), clock)

\* C20: two parse calls on the same bytes return the same value, in the
\* legacy and in the convertor parser, whatever calls were made before
\* and between them.
C20_ParseIsIdempotent ==
    \A i, j \in 1..Len(calls) :
        (calls[i].at # "start" /\ calls[j].at # "start"
         /\ calls[i].input = calls[j].input) =>
            /\ calls[i].returned = calls[j].returned
            /\ calls[i].conv = calls[j].conv

\* The same file was parsed before and after a different file, and the
\* calls returned objects.
C20_Witness ==
    \E i, j, k \in 1..Len(calls) :
        /\ calls[i].at # "start" /\ calls[j].at # "start" /\ calls[k].at # "start"
        /\ calls[i].when < calls[j].when /\ calls[j].when < calls[k].when
        /\ calls[i].input = calls[k].input
        /\ calls[j].input # calls[i].input
        /\ calls[j].returned # None
        /\ calls[k].returned # None
        /\ IsDict(calls[k].conv) /\ calls[k].conv # EmptyDict


(***************************************************************************)
(* More claims about the text layer (SpecSplit).                           *)
(***************************************************************************)
\* The attempts of the brace-depth scan that parsed, in the order made.
Emitted == SelectSeq(attempts, LAMBDA a : a.ok)

\* The positions where the separator "}{" occurs in the text (two
\* occurrences cannot overlap), and the n-th of them.
Cuts == {i \in 1..(Len(json_str) - 1) : json_str[i] = "}" /\ json_str[i + 1] = "{"}
NthCut(n) == CHOOSE i \in Cuts : Cardinality({m \in Cuts : m < i}) = n - 1

\* The stretches of the text between the separators, in order.
PieceCount == Cardinality(Cuts) + 1
PieceStart(k) == IF k = 1 THEN 1 ELSE NthCut(k - 1) + 2
PieceEnd(k) == IF k = PieceCount THEN Len(json_str) ELSE NthCut(k) - 1
PieceText(k) ==
    IF PieceStart(k) > PieceEnd(k) THEN <<>>
    ELSE SubSeq(json_str, PieceStart(k), PieceEnd(k))

\* The stretches that json.loads accepts once re-wrapped, and the n-th
\* of them.
Loadable == {k \in 1..PieceCount : JsonLoads(Rewrap(PieceText(k))).ok}
NthLoadable(n) == CHOOSE k \in Loadable : Cardinality({m \in Loadable : m < k}) = n - 1

\* C18: the objects come out in the order their texts appear, from
\* pairwise disjoint stretches of the text.  Brace-depth scan: the i-th
\* object is the parse of the i-th stretch that parsed, and each stretch
\* ends before the next begins.  Whole-text parse of an array: the
\* elements in array order.  Legacy split: the i-th object is the parse
\* of the i-th of the stretches between the separators that parses once
\* re-wrapped.
C18_ObjectsInOrderOfAppearance ==
    pc = "split" =>
        /\ ~JsonLoads(json_str).ok =>
              /\ Len(parsed) = Len(Emitted)
              /\ \A i \in 1..Len(Emitted) :
                    /\ Emitted[i].first >= 1 /\ Emitted[i].last <= Len(json_str)
                    /\ parsed[i] =
                          JsonLoads(SubSeq(json_str, Emitted[i].first, Emitted[i].last)).val
                    /\ i < Len(Emitted) => Emitted[i].last < Emitted[i + 1].first
        /\ (JsonLoads(json_str).ok /\ IsList(JsonLoads(json_str).val)) =>
              parsed = JsonLoads(json_str).val.v
        /\ Len(legacy_objects) = Cardinality(Loadable)
        /\ \A n \in 1..Len(legacy_objects) :
              legacy_objects[n] = JsonLoads(Rewrap(PieceText(NthLoadable(n)))).val

\* Two different objects recovered by the brace-depth scan and by the
\* legacy split from one text.
C18_Witness ==
    /\ pc = "split"
    /\ ~JsonLoads(json_str).ok
    /\ Len(parsed) >= 2 /\ parsed[1] # parsed[2]
    /\ Len(legacy_objects) >= 2 /\ legacy_objects[1] # legacy_objects[2]


(***************************************************************************)
(* More claims about the record layer (SpecRecord).                        *)
(***************************************************************************)
\* A value int() and float() both reject: neither a number nor a text,
\* or a text without a single decimal digit.
Unparseable(x) ==
    \/ x.t \notin {"num", "str"}
    \/ x.t = "str" /\ \A j \in 1..Len(x.v) : ~IsDecimal(x.v[j])

\* violation_info gives no usable epoch: it is no mapping, UTC is missing,
\* null, zero or unparseable, or ms or timezone is present and
\* unparseable.
NoUsableEpoch(info) ==
    \/ ~IsDict(info)
    \/ ~HasKey(info, "UTC")
    \/ Get(info, "UTC", None) = None
    \/ Get(info, "UTC", None) = Num(0)
    \/ Unparseable(Get(info, "UTC", None))
    \/ Unparseable(Get(info, "ms", Num(0)))
    \/ Unparseable(Get(info, "timezone", Num(0)))

\* YYYY-MM-DDTHH:MM:SS.mmm
IsIsoMillis(cs) ==
    /\ Len(cs) = 23
    /\ cs[5] = "-" /\ cs[8] = "-" /\ cs[11] = "T"
    /\ cs[14] = ":" /\ cs[17] = ":" /\ cs[20] = "."
    /\ \A j \in (1..23) \ {5, 8, 11, 14, 17, 20} : IsDecimal(cs[j])

\* C19: the timestamp derivation never raises (an object builds whenever
\* it builds with a well-formed violation_info in place of its own; in
\* the legacy variant, where other fields read violation_info too, in
\* place of its own mapping), and
\* with no usable epoch v_time_check is the current time, in both
\* variants, as YYYY-MM-DDTHH:MM:SS.mmm.
C19_TimestampFallsBackToNow ==
    (pc = "done" /\ segments # <<>> /\ parsed_data # <<>> /\ IsDict(LastObject)) =>
        LET info == Get(LastObject, "violation_info", EmptyDict)
        IN  /\ BuildViolation(FrameTexts(segments),
                              <<Put(LastObject, "violation_info", FullInfo)>>, clock)
                   # EmptyDict
               => HasKey(result, "v_time_check")
            /\ (IsDict(info)
                /\ IsDict(LegacyBuild(<<LastObject, Put(LastObject, "violation_info", FullInfo)>>,
                                      segments, clock)))
               => IsDict(LegacyBuild(<<LastObject, LastObject>>, segments, clock))
            /\ HasKey(result, "v_time_check") =>
                  /\ IsIsoMillis(Item(result, "v_time_check").v)
                  /\ NoUsableEpoch(info) =>
                         Item(result, "v_time_check") = Str(IsoMillis(clock))
            /\ (IsDict(legacy_record) /\ Len(parsed_data) = 2) =>
                  /\ IsIsoMillis(Item(legacy_record, "v_time_check").v)
                  /\ NoUsableEpoch(info) =>
                         Item(legacy_record, "v_time_check") = Str(IsoMillis(clock))

\* An epoch that is present and unparseable: both variants built the
\* record with the current time in it.
C19_Witness ==
    /\ pc = "done"
    /\ Len(parsed_data) = 2
    /\ IsDict(LastObject)
    /\ IsDict(Get(LastObject, "violation_info", None))
    /\ IsStr(Get(Item(LastObject, "violation_info"), "UTC", None))
    /\ Unparseable(Item(Item(LastObject, "violation_info"), "UTC"))
    /\ IsDict(result) /\ HasKey(result, "v_regno")
    /\ Item(result, "v_time_check") = Str(IsoMillis(clock))
    /\ IsDict(legacy_record)
    /\ Item(legacy_record, "v_time_check") = Str(IsoMillis(clock))

(***************************************************************************)
(* The direction fields of the legacy record (lines 150-156 and 176-177).  *)
(***************************************************************************)
\* direct_name as lines 153 and 156 compute it from the authoritative
\* object.
DirectName(obj) ==
    LET place == Get(obj, "installation_place_info", EmptyDict)
        vinfo == Get(obj, "violation_info", EmptyDict)
    IN  IF IsZero(Get(vinfo, "direction", None))
        THEN Get(place, "place_incoming", None)
        ELSE Get(place, "place_outcoming", None)

\* C21 (as stated): the direction name of the record is the place
\* section's incoming label when the direction code is 0 and its outgoing
\* label for any other code, the test that selects the direction label.
C21_Original_DirectionNameFromPlace ==
    (pc = "done" /\ IsDict(legacy_record)) =>
        /\ Item(legacy_record, "v_direction") =
              (IF IsZero(Get(Get(parsed_data[2], "violation_info", EmptyDict),
                             "direction", None))
               THEN Oncoming ELSE SameDirection)
        /\ Item(legacy_record, "v_direction_name") = DirectName(parsed_data[2])

(***************************************************************************)
(* The vehicle model field.                                                *)
(***************************************************************************)
\* mark, "/" and model with nothing else; an absent sub-field counts as "".
MarkSlashModel(rinfo) ==
    Str(PyStr(Get(rinfo, "mark", Str(<<>>))) \o <<"/">>
        \o PyStr(Get(rinfo, "model", Str(<<>>))))

\* C22 (as stated): the vehicle model field is exactly "mark/model" built
\* from the recognizer section, empty components allowed ("/X", "/"), in
\* the record of either variant.
C22_Original_ModelIsMarkSlashModel ==
    pc = "done" =>
        /\ (IsDict(result) /\ result # EmptyDict
                /\ IsDict(Get(LastData(parsed_data), "recogniser_info", None))) =>
              Get(result, "v_ts_model", None) =
                  MarkSlashModel(Item(LastData(parsed_data), "recogniser_info"))
        /\ IsDict(legacy_record) =>
              Item(legacy_record, "v_ts_model") =
                  MarkSlashModel(Get(parsed_data[2], "recogniser_info", EmptyDict))

\* C22: the legacy record's vehicle model is exactly "mark/model", empty
\* components allowed.  The convertor record holds "(mark/model)", in
\* parentheses, when mark or model is non-empty, and has no vehicle model
\* field when both are empty or absent.
C22_ModelTextPerVariant ==
    pc = "done" =>
        /\ IsDict(legacy_record) =>
              Item(legacy_record, "v_ts_model") =
                  MarkSlashModel(Get(parsed_data[2], "recogniser_info", EmptyDict))
        /\ (IsDict(result) /\ result # EmptyDict
                /\ IsDict(Get(LastData(parsed_data), "recogniser_info", None))) =>
              LET rinfo == Item(LastData(parsed_data), "recogniser_info")
              IN  IF Truthy(Get(rinfo, "mark", Str(<<>>)))
                        \/ Truthy(Get(rinfo, "model", Str(<<>>)))
                  THEN Get(result, "v_ts_model", None) =
                           Str(<<"(">> \o MarkSlashModel(rinfo).v \o <<")">>)
                  ELSE ~HasKey(result, "v_ts_model")

\* One object with model "X" and no mark, built by both variants.
C22_Witness ==
    /\ pc = "done"
    /\ IsDict(legacy_record)
    /\ Item(legacy_record, "v_ts_model") = Str(<<"/", "X">>)
    /\ IsDict(result)
    /\ Get(result, "v_ts_model", None) = Str(<<"(", "/", "X", ")">>)

(***************************************************************************)
(* The coordinate fields.                                                  *)
(***************************************************************************)
\* A coordinate value with no number in it: null, a text that is empty or
\* not a number once cleaned, or a value of a non-numeric type.
UnusableCoordinate(x) ==
    \/ x.t = "null"
    \/ x.t = "str" /\ ~FloatOfText(CleanCoordinate(x.v)).ok
    \/ x.t \in {"arr", "obj"}

\* The object with both coordinates of its place section set to "1".
WithPlainCoordinates(obj) ==
    Put(obj, "installation_place_info",
        Put(Put(Item(obj, "installation_place_info"), "latitude", Str(<<"1">>)),
            "longitude", Str(<<"1">>)))

\* C23 (as stated): deriving a coordinate never raises, and a null value,
\* a text empty or not a number once cleaned, and a value of a
\* non-numeric type all give 0.0: in the convertor record, and in the
\* legacy record, which such a coordinate does not keep from being built.
C23_Original_CoordinateNeverRaises ==
    pc = "done" =>
        /\ (IsDict(result) /\ result # EmptyDict
                /\ IsDict(Get(LastData(parsed_data), "installation_place_info", None))) =>
              LET place == Item(LastData(parsed_data), "installation_place_info")
              IN  /\ UnusableCoordinate(Get(place, "latitude", None)) =>
                        Get(result, "v_gps_x", None) = ZeroFloat
                  /\ UnusableCoordinate(Get(place, "longitude", None)) =>
                        Get(result, "v_gps_y", None) = ZeroFloat
        /\ (/\ Len(parsed_data) >= 2
            /\ IsDict(parsed_data[2])
            /\ IsDict(Get(parsed_data[2], "installation_place_info", None))
            /\ IsDict(LegacyBuild(<<parsed_data[1], WithPlainCoordinates(parsed_data[2])>>,
                                  segments, clock))) =>
              LET place == Item(parsed_data[2], "installation_place_info")
              IN  /\ IsDict(legacy_record)
                  /\ UnusableCoordinate(Get(place, "latitude", None)) =>
                        Item(legacy_record, "v_gps_x") = ZeroFloat
                  /\ UnusableCoordinate(Get(place, "longitude", None)) =>
                        Item(legacy_record, "v_gps_y") = ZeroFloat

(***************************************************************************)
(* SpecSerial: the serialization pass on records that hold values of       *)
(* every kind, the ones json.loads never builds included.                  *)
(***************************************************************************)
SerialLeaves ==
    { Num(1), Str(<<"a">>), None, Float(FALSE, 15, 1), Bool(TRUE),
      Datetime(Instant(86400, 0)), Datetime(Now), Opaque }

SerialValues ==
    SerialLeaves
    \cup {Arr(<<x, Num(2)>>) : x \in SerialLeaves}
    \cup {Obj(<< <<kb, x>> >>) : x \in SerialLeaves}

InitSerial ==
    /\ violation \in {Obj(<< <<"v_camera", x>>, <<"v_photo_extra", y>> >>) :
                         x \in SerialValues, y \in SerialValues}
    /\ result = None
    /\ segments = <<>>
    /\ parsed_data = <<>>
    /\ clock = Now
    /\ legacy_record = None
    /\ calls = <<>>
    /\ pc = "built"
    /\ BytesIdle
    /\ TextIdle
    /\ FlowIdle

\* Convertor parse, line 61: return self._ensure_serializable(violation_data)
MakeSerializable ==
    /\ pc = "built"
    /\ result' = EnsureSerializable(violation)
    /\ pc' = "returned"
    /\ UNCHANGED <<segments, parsed_data, clock, violation, legacy_record, calls>>
    /\ UNCHANGED <<byte_vars, text_vars, flow_vars>>

NextSerial == MakeSerializable

SpecSerial == InitSerial /\ [][NextSerial]_vars

\* A value json.dumps encodes without the default= hook.
RECURSIVE JsonEncodable(_)
JsonEncodable(x) ==
    IF x.t \in {"str", "num", "float", "bool", "null"} THEN TRUE
    ELSE IF x.t = "arr" THEN \A i \in 1..Len(x.v) : JsonEncodable(x.v[i])
    ELSE IF x.t = "obj" THEN \A i \in 1..Len(x.v) : JsonEncodable(x.v[i][2])
    ELSE FALSE

\* C24: the record parse returns holds only strings, numbers, booleans,
\* null, mappings and lists.  A record that held nothing else comes back
\* unchanged, and a field holding a value of another kind comes back as
\* that value's string representation (isoformat for a datetime).
C24_RecordIsJsonEncodable ==
    pc = "returned" =>
        /\ JsonEncodable(result)
        /\ JsonEncodable(violation) => result = violation
        /\ \A i \in 1..Len(violation.v) :
              /\ result.v[i][1] = violation.v[i][1]
              /\ violation.v[i][2].t = "datetime" =>
                    result.v[i][2] = Str(IsoFormat(violation.v[i][2].v))
              /\ violation.v[i][2] = Opaque => result.v[i][2].t = "str"

\* A record holding a datetime inside a list and an object of another
\* class, after the pass.
C24_Witness ==
    /\ pc = "returned"
    /\ Item(violation, "v_camera") = Opaque
    /\ Item(violation, "v_photo_extra") = Arr(<<Datetime(Now), Num(2)>>)
    /\ Item(result, "v_camera") = Str(<<"<", "set", ">">>)
    /\ Item(result, "v_photo_extra")
          = Arr(<<Str(IsoMillis(Now) \o <<"0", "0", "0">>), Num(2)>>)

\* The records both builders return hold JSON kinds only, before any pass.
BuiltRecordsAreJson ==
    pc = "done" => JsonEncodable(result) /\ JsonEncodable(legacy_record)

(***************************************************************************)
(* The metadata region against the frames.                                 *)
(***************************************************************************)
\* The Python position where the region begins, the region being a tail of
\* the buffer.
RegionStart == Len(data) - Len(json_data)

\* C25: the metadata region is a tail of the buffer that begins at or
\* after the end of every extracted frame, so no byte of a frame lies in
\* it, and it holds no end marker FFD9.  The legacy scan extracts the same
\* byte ranges and, when it locates a region, the same region.
C25_RegionAfterLastFrame ==
    pc = "done" =>
        /\ json_data = Slice(data, RegionStart, Len(data))
        /\ \A i \in 1..Len(ranges) : ranges[i][2] + 2 <= RegionStart
        /\ \A p \in 0..(Len(json_data) - 2) : ~MarkerAt(json_data, EOI, p)
        /\ LegacySegments(data)
              = [i \in 1..Len(ranges) |-> Slice(data, ranges[i][1], ranges[i][2] + 2)]
        /\ legacy_region # Raised => legacy_region = json_data

\* One frame, then a stray end marker, then a non-empty region: the region
\* begins beyond the end of the last frame.
C25_Witness ==
    /\ pc = "done"
    /\ Len(ranges) = 1
    /\ ranges[1][2] + 2 < RegionStart
    /\ json_data # <<>>
    /\ legacy_region = json_data

\* The invocation whose parse call was the most recent one.
IsLatestParse(i) == calls[i].at # "start" /\ calls[i].when = ParsesMade

\* C26 (as stated): after any sequence of parse calls on one legacy
\* instance, self.segments and self.parsed_objects both describe the
\* input of the most recent call (no objects when that call failed), and
\* a record built from the instance takes its frames and its metadata
\* from one and the same file.
C26_Original_StateOfLatestParseOnly ==
    /\ \A i \in 1..Len(calls) :
          IsLatestParse(i) =>
              /\ segments = LegacySegments(calls[i].input.head)
              /\ parsed_data = (IF LegacyParseFails(calls[i].input) THEN <<>>
                                ELSE calls[i].input.objects)
    /\ \A i \in 1..Len(calls) :
          (calls[i].at = "built" /\ IsDict(calls[i].record)) =>
              \E f \in FilePool :
                  calls[i].record = LegacyBuild(f.objects, LegacySegments(f.head), clock)

(***************************************************************************)
(* SpecFlow: the processing flows that drive the parser.  Three are in     *)
(* the repository: run_processing_flow of the convertor service (the       *)
(* second definition, lines 156-178, which replaces the one of lines       *)
(* 69-81), run_processing_flow of the legacy service, and                  *)
(* process_violations of main.py.  The database, the FTP client and the    *)
(* API client are taken by what their calls give back to the flow.         *)
(***************************************************************************)
MaxBatch == 2

Flows == {"convertor", "service", "main"}

\* A row of the batch with the outcome of its download: the call raises,
\* the server cannot be reached (None, no connection kept), the file is
\* not on the server (None, connection kept), or the bytes of a file.
Row(download, file) == [download |-> download, file |-> file]

NoFile == File(<<>>, FALSE, <<>>, <<>>)

RowPool ==
    {Row(d, NoFile) : d \in {"raises", "unreachable", "missing"}}
    \cup {Row("bytes", f) : f \in FilePool}

Batches == UNION {[1..n -> RowPool] : n \in 0..MaxBatch}

InitFlow ==
    /\ flow \in Flows
    /\ violations = <<>>
    /\ cursor = 0
    /\ attempted = {}
    /\ delivered = <<>>
    /\ db_connection = "open"
    /\ ftp_connection = "none"
    /\ escaped = FALSE
    /\ start_date = 0
    /\ pc = "fetch"
    /\ segments = <<>>
    /\ parsed_data = <<>>
    /\ clock = Now
    /\ violation = None
    /\ result = None
    /\ legacy_record = None
    /\ calls = <<>>
    /\ BytesIdle
    /\ TextIdle

\* What parser.parse(photo_data) gives the flow for a row; a download
\* that gave None is refused by _validate_input.
ConvertorParsed(v, now) ==
    IF v.download = "bytes" THEN ConvertorParse(v.file, now) ELSE None

\* main.py, lines 63-64: a new JpegParser for every violation.
LegacyParsed(v) ==
    IF v.download = "bytes" THEN LegacyParseReturn(<<>>, v.file) ELSE None

\* Convertor service, _enrich_data (lines 125-132): a copy of the parsed
\* dict passed through json.dumps and json.loads.
EnrichData(parsed_dict) == EnsureSerializable(parsed_dict)

\* Convertor service, _validate_data (lines 180-187).
ValidateData(x) == JsonEncodable(x)

NoSend == <<>>
Send(i, payload) == << [index |-> i, payload |-> payload] >>

\* parsed_data = self.parser.parse(photo_data) or {}
OrEmpty(returned) == IF Truthy(returned) THEN returned ELSE EmptyDict

\* Lines 170-172: send_violation is called when _validate_data accepts.
SendIfValid(i, enriched) ==
    IF ValidateData(enriched) THEN Send(i, enriched) ELSE NoSend

\* The send_violation calls one pass of the loop body makes for row i.
ConvertorSends(i, v, now) ==
    IF v.download = "raises" THEN NoSend
    ELSE CHOOSE sends \in
             {SendIfValid(i, enriched) :
                 enriched \in {EnrichData(OrEmpty(returned)) :
                                  returned \in {ConvertorParsed(v, now)}}} : TRUE

\* Legacy service, lines 65-74: _prepare_enriched_data and
\* _validate_violation are not defined in the class, the body raises
\* before it reaches send_violation.
ServiceSends(i, v, now) == NoSend

\* main.py, lines 70-77: violation_data = parser._parse_json(), sent when
\* it is not empty.
SendIfBuilt(i, violation_data) ==
    IF ~Truthy(violation_data) THEN NoSend ELSE Send(i, violation_data)

\* main.py, _process_single_violation (lines 48-92).
MainSends(i, v, now) ==
    IF v.download # "bytes" THEN NoSend
    ELSE IF ~Truthy(LegacyParsed(v)) THEN NoSend
    ELSE CHOOSE sends \in
             {SendIfBuilt(i, LegacyBuild(objects, segs, now)) :
                 objects \in {ParsedObjectsAfter(<<>>, v.file)},
                 segs \in {LegacySegments(v.file.head)}} : TRUE

Sends(f, i, v, now) ==
    IF f = "convertor" THEN ConvertorSends(i, v, now)
    ELSE IF f = "service" THEN ServiceSends(i, v, now)
    ELSE MainSends(i, v, now)

\* Whether the loop body raised for the row.
BodyRaised(f, v) == f = "service" \/ v.download = "raises"

\* The index the for loop goes on with after the body raised at index i
\* of n: the except clause is inside the loop.
ResumeAfterError_Abort(i, n) == n + 1

ResumeAfterError(i, n) == i + 1

\* violations = self.db.get_new_violations(): a list of rows, or an
\* exception that is not a psycopg2.Error.
Fetch ==
    /\ pc = "fetch"
    /\ \/ \E rows \in Batches :
             /\ violations' = rows
             /\ cursor' = 1
             /\ pc' = IF flow = "main" /\ rows = <<>> THEN "cleanup" ELSE "loop"
             /\ escaped' = FALSE
       \/ /\ violations' = <<>>
          /\ cursor' = 1
          /\ pc' = "cleanup"
          /\ escaped' = (flow # "main")
    /\ UNCHANGED <<flow, attempted, delivered, db_connection, ftp_connection, start_date>>
    /\ UNCHANGED <<byte_vars, text_vars, record_vars>>

\* One pass of the for loop.
ProcessViolation ==
    /\ pc = "loop"
    /\ cursor <= Len(violations)
    /\ LET v == violations[cursor]
       IN  /\ attempted' = attempted \cup {cursor}
           /\ delivered' = delivered \o Sends(flow, cursor, v, clock)
           /\ ftp_connection' = IF v.download \in {"missing", "bytes"} THEN "open"
                                ELSE ftp_connection
           /\ cursor' = IF BodyRaised(flow, v)
                        THEN ResumeAfterError(cursor, Len(violations))
                        ELSE cursor + 1
    /\ UNCHANGED <<pc, flow, violations, db_connection, escaped, start_date>>
    /\ UNCHANGED <<byte_vars, text_vars, record_vars>>

\* The loop is exhausted; main.py then calls _update_last_processed_date.
EndLoop ==
    /\ pc = "loop"
    /\ cursor > Len(violations)
    /\ start_date' = IF flow = "main" THEN clock.sec ELSE start_date
    /\ pc' = "cleanup"
    /\ UNCHANGED <<flow, violations, cursor, attempted, delivered, db_connection,
                   ftp_connection, escaped>>
    /\ UNCHANGED <<byte_vars, text_vars, record_vars>>

\* The finally block: db.close() and ftp.disconnect().
Cleanup ==
    /\ pc = "cleanup"
    /\ db_connection' = "closed"
    /\ ftp_connection' = "none"
    /\ pc' = "ended"
    /\ UNCHANGED <<flow, violations, cursor, attempted, delivered, escaped, start_date>>
    /\ UNCHANGED <<byte_vars, text_vars, record_vars>>

NextFlow == Fetch \/ ProcessViolation \/ EndLoop \/ Cleanup

SpecFlow == InitFlow /\ [][NextFlow]_vars

\* The change of the loop index a pass of the for loop makes: the steps
\* of SpecFlow that change cursor are the ProcessViolation steps.
TakesRow ==
    /\ pc = "loop"
    /\ cursor <= Len(violations)
    /\ cursor' \in (cursor + 1)..(Len(violations) + 1)

\* The flow runs in one thread and no call blocks for ever: a step that
\* can be taken is taken.
SpecFlowFair ==
    /\ SpecFlow
    /\ WF_vars(Fetch)
    /\ WF_cursor(TakesRow)
    /\ WF_vars(EndLoop)
    /\ WF_vars(Cleanup)

RequiredFields == {"v_regno", "v_time_check", "v_photo_ts"}

\* What the parser of the flow returned for a row.
ParserReturned(f, v, now) ==
    IF f = "main" THEN LegacyParsed(v) ELSE ConvertorParsed(v, now)

\* C27 (as stated): send_violation is called only for a row whose parse
\* succeeded, with a payload that has the required fields v_regno,
\* v_time_check and v_photo_ts; not when the parser returned None or an
\* empty record.
C27_Original_SendOnlyAfterSuccessfulParse ==
    \A k \in 1..Len(delivered) :
        /\ Truthy(ParserReturned(flow, violations[delivered[k].index], clock))
        /\ \A field \in RequiredFields : HasKey(delivered[k].payload, field)

\* The part of C27 that main.py keeps: it sends only what a successful
\* parse and a successful _parse_json gave.
MainSendsOnlyParsed ==
    flow = "main" => C27_Original_SendOnlyAfterSuccessfulParse

\* The run is over with both connections released and every row of the
\* batch taken by the loop.
EndedClean ==
    /\ pc = "ended"
    /\ db_connection = "closed"
    /\ ftp_connection = "none"
    /\ attempted = DOMAIN violations

\* C28: every run of a processing flow ends, and ends with the database
\* connection closed and the FTP client disconnected, whether all rows
\* were processed, one of them raised or the fetch raised; and the loop
\* body is entered for every row of the batch, also for those that come
\* after a row whose processing raised.
C28_RunEndsCleanedUp ==
    /\ <>[]EndedClean
    /\ [](pc = "ended" => EndedClean)

\* A finished convertor run over two rows: the download of the first
\* raised, the second was processed and delivered, the connection the
\* second download opened is released.
C28_Witness ==
    /\ EndedClean
    /\ flow = "convertor"
    /\ Len(violations) = 2
    /\ violations[1].download = "raises"
    /\ violations[2].download = "bytes"
    /\ \E k \in 1..Len(delivered) : delivered[k].index = 2

\* A run whose fetch raised: the exception leaves the service flow after
\* the cleanup.
FetchFailureCleansUp ==
    (pc = "ended" /\ escaped) => (violations = <<>> /\ EndedClean)

(***************************************************************************)
(* The epoch value 0 (SpecRecord).                                         *)
(***************************************************************************)
\* v_time_check as the epoch, ms and timezone of violation_info give it.
TimeFromEpoch(info) ==
    Str(IsoMillis(AddDelta(Instant(ToInt(Item(info, "UTC")).val, 0),
                           ToInt(Get(info, "ms", Num(0))).val,
                           HoursOfTimezone(ToInt(Get(info, "timezone", Num(0))).val))))

\* violation_info has a numeric epoch, and ms and timezone values that
\* int() accepts.
HasNumericEpoch(info) ==
    /\ IsDict(info)
    /\ IsNum(Get(info, "UTC", None))
    /\ ~Unparseable(Get(info, "ms", Num(0)))
    /\ ~Unparseable(Get(info, "timezone", Num(0)))

\* C29 (as stated): a present numeric epoch, the value 0 included, is
\* the base of v_time_check in both variants; the current time is not
\* used for it.
C29_Original_NumericEpochIsUsed ==
    (pc = "done" /\ segments # <<>> /\ parsed_data # <<>> /\ IsDict(LastObject)) =>
        LET info == Get(LastObject, "violation_info", EmptyDict)
        IN  HasNumericEpoch(info) =>
              /\ HasKey(result, "v_time_check") =>
                     Item(result, "v_time_check") = TimeFromEpoch(info)
              /\ (IsDict(legacy_record) /\ Len(parsed_data) = 2) =>
                     Item(legacy_record, "v_time_check") = TimeFromEpoch(info)

\* The part of C29 the code keeps: a numeric epoch other than 0 is used.
NonZeroEpochIsUsed ==
    (pc = "done" /\ segments # <<>> /\ parsed_data # <<>> /\ IsDict(LastObject)) =>
        LET info == Get(LastObject, "violation_info", EmptyDict)
        IN  (HasNumericEpoch(info) /\ Item(info, "UTC") # Num(0)) =>
              /\ HasKey(result, "v_time_check") =>
                     Item(result, "v_time_check") = TimeFromEpoch(info)
              /\ (IsDict(legacy_record) /\ Len(parsed_data) = 2) =>
                     Item(legacy_record, "v_time_check") = TimeFromEpoch(info)

(***************************************************************************)
(* Termination of the frame scan (SpecFrames).                             *)
(***************************************************************************)
\* The number of end markers in the buffer.
EndMarkers == Cardinality({p \in 0..Len(data) : MarkerAt(data, EOI, p)})

\* One iteration either stops the scan and emits nothing, or emits one
\* frame and moves the cursor to the position after its end marker.
ScanStopsOrAdvances ==
    pc = "scan" =>
        \/ pc' = "locate" /\ frames' = frames /\ pos' = pos
        \/ /\ pc' = "scan"
           /\ Len(frames') = Len(frames) + 1
           /\ pos < Len(data)
           /\ pos' > pos
           /\ pos' <= Len(data)
           /\ pos' = ranges'[Len(ranges')][2] + 2
           /\ iters' = iters + 1

\* C30: the frame scan terminates on every buffer: an iteration either
\* stops or emits one frame and moves the cursor to a strictly greater
\* position, the offset of the frame's end marker plus 2; the frames
\* end at distinct end markers, so emitting iterations number at most
\* the end markers of the buffer and the scan makes at most one more.
C30_ScanTerminates ==
    /\ [][ScanStopsOrAdvances]_vars
    /\ [](/\ Len(frames) <= EndMarkers
          /\ iters <= EndMarkers + 1
          /\ pos <= Len(data)
          /\ \A i, j \in 1..Len(ranges) : i < j => ranges[i][2] < ranges[j][2])

\* The scan has ended after as many emitting iterations as the buffer
\* has end markers, two, with the cursor at the end of the buffer.
C30_Witness ==
    /\ pc # "scan"
    /\ EndMarkers = 2
    /\ Len(frames) = 2
    /\ iters = 2
    /\ pos = Len(data)

\* The scan is not interrupted.
SpecFramesFair == SpecFrames /\ WF_vars(NextFrames)

\* Under that condition every scan ends and the region is located.
ScanEnds == <>(pc = "done")

=============================================================================
